---- MODULE Spec2Model ----
(***************************************************************************)
(* State-machine model of the quickchat backend: the socket registry       *)
(* (sockets/userSocketManager.js), the socket event handlers               *)
(* (sockets/socketHandler.js) and the REST controllers that create          *)
(* conversations and messages and advance a message's delivery state       *)
(* (controllers/messageController.js, controllers/userController.js).      *)
(* Every handler is one action; the persisted collections are functions    *)
(* whose domain is the set of stored document ids.                         *)
(***************************************************************************)
EXTENDS Integers, FiniteSets, Sequences, Bags, TLC

\* ---------------------------------------------------------------- bounds
MaxConns == 2
MaxConvs == 1
MaxMsgs  == 1
MaxTime  == 2

\* ------------------------------------------------------------- universes
Users   == {"A", "B", "C"}
Conns   == 1 .. MaxConns
ConvIds == 1 .. MaxConvs
MsgIds  == 1 .. MaxMsgs

NoUser == "none"
NoConn == 0
NoConv == 0
NoTime == 0
\* the room a socket lands in when join() is handed an undefined id
RoomUndefined == 0

VARIABLES
    status,          \* Conns -> "new" | "open" | "closed"  (io.sockets.sockets = the open ones)
    connectedUsers,  \* socketHandler: connectedUsers[userId] = socket.id
    socketToUserId,  \* socketHandler: socketToUserId[socket.id] = userId
    userSockets,     \* userSocketManager: Map userId -> socketId
    rooms,           \* Conns -> set of room ids the socket has joined
    conversations,   \* Conversation collection: id -> document
    messages,        \* Message collection: id -> document
    nextConvId,      \* ids are never reused
    nextMsgId,
    now,             \* clock read by new Date()
    emitted,         \* bag of the events the last handler emitted
    last,            \* the last handled request and its response
    boundUsers,      \* history: the users each live socket has sent userConnected for
    pending,         \* the sendMessage request suspended at an await, if any
    joining,         \* Conns -> the user whose userConnected awaits its query, if any
    viewing          \* the markEphemeralAsViewed request suspended at an await, if any

vars == <<status, connectedUsers, socketToUserId, userSockets, rooms,
          conversations, messages, nextConvId, nextMsgId, now, emitted, last,
          boundUsers, pending, joining, viewing>>

registry == <<connectedUsers, socketToUserId, userSockets, boundUsers>>
store    == <<conversations, messages, nextConvId, nextMsgId>>

\* ------------------------------------------------------------- helpers
OpenConns == {c \in Conns : status[c] = "open"}

\* a REST response: the handler, the HTTP status and the message of the body
Op(op, st, text) == [op |-> op, status |-> st, text |-> text]

\* socket events are fire-and-forget: they answer nothing
NoResponse == Op("event", 0, "")

Ev(to, ev, conv, msgs) == [to |-> to, ev |-> ev, conv |-> conv, msgs |-> msgs]

\* userSocketManager.getUserSocket: the live socket registered for userId, if any
getUserSocket(userId) ==
    IF userSockets[userId] # NoConn /\ userSockets[userId] \in OpenConns
    THEN userSockets[userId] ELSE NoConn

\* userSocketManager.getUserSockets: "handlesOf(userId)", the live handles
\* the registry holds for userId, empty when it holds none
getUserSockets(userId) ==
    IF getUserSocket(userId) = NoConn THEN {} ELSE {getUserSocket(userId)}

\* io.emit: one event to every connected socket
Broadcast(ev, conv) == SetToBag({Ev(c, ev, conv, {}) : c \in OpenConns})

\* the users in document order, to turn a set of ids into a list
UserOrder == <<"A", "B", "C">>
InSet(S) == LET in(u) == u \in S IN SelectSeq(UserOrder, in)
Range(seq) == {seq[i] : i \in DOMAIN seq}

\* Array.prototype.filter on a list of user ids
RECURSIVE NotIn(_, _)
NotIn(seq, S) ==
    IF seq = << >> THEN << >>
    ELSE IF Head(seq) \in S THEN NotIn(Tail(seq), S)
         ELSE <<Head(seq)>> \o NotIn(Tail(seq), S)

\* no request is suspended; a suspended sendMessage holds the conversation
\* document it loaded or created
NoDocument == [participants |-> << >>, isGroupChat |-> FALSE, visibleTo |-> {},
               initiatedBy |-> NoUser]
NoRequest == [senderId |-> NoUser, receiver |-> NoUser, conversation |-> NoConv,
              document |-> NoDocument]

\* no id of a message
NoMsg == 0

\* no markEphemeralAsViewed in flight; loaded holds the message document the
\* suspended request read with findById
NoViewing == [userId |-> NoUser, messageId |-> NoMsg, loaded |-> << >>]

\* ------------------------------------------------------------------ Init
Init ==
    /\ pending = NoRequest
    /\ joining = [c \in Conns |-> NoUser]
    /\ viewing = NoViewing
    /\ status = [c \in Conns |-> "new"]
    /\ connectedUsers = [u \in Users |-> NoConn]
    /\ socketToUserId = [c \in Conns |-> NoUser]
    /\ userSockets = [u \in Users |-> NoConn]
    /\ rooms = [c \in Conns |-> {}]
    /\ conversations = << >>
    /\ messages = << >>
    /\ nextConvId = 1
    /\ nextMsgId = 1
    /\ now = 1
    /\ emitted = EmptyBag
    /\ last = NoResponse
    /\ boundUsers = [c \in Conns |-> {}]

\* ------------------------------------------------- connection lifecycle
\* io.on("connection"): a new socket, with a fresh id, becomes live
Connect(c) ==
    /\ status[c] = "new"
    /\ status' = [status EXCEPT ![c] = "open"]
    /\ emitted' = EmptyBag
    /\ last' = NoResponse
    /\ UNCHANGED <<pending, joining, viewing, registry, rooms, store, now>>

\* mutant: auto-rejoin of the legacy conversations only
VisibleConversationsLegacyOnly(userId) ==
    {id \in DOMAIN conversations :
        /\ \E i \in DOMAIN conversations[id].participants :
               conversations[id].participants[i] = userId
        /\ conversations[id].visibleTo = {}}

\* mutant: auto-rejoin without the visibleTo filter
VisibleConversationsUnfiltered(userId) ==
    {id \in DOMAIN conversations :
        \E i \in DOMAIN conversations[id].participants :
            conversations[id].participants[i] = userId}

\* the conversations the auto-rejoin of userConnected selects for userId
VisibleConversations(userId) ==
    {id \in DOMAIN conversations :
        /\ \E i \in DOMAIN conversations[id].participants :
               conversations[id].participants[i] = userId
        /\ \/ conversations[id].visibleTo = {}
           \/ userId \in conversations[id].visibleTo}

\* socket.on("userConnected")
UserConnected(c, userId) ==
    /\ status[c] = "open"
    /\ connectedUsers' = [connectedUsers EXCEPT ![userId] = c]
    /\ socketToUserId' = [socketToUserId EXCEPT ![c] = userId]
    /\ userSockets' = [userSockets EXCEPT ![userId] = c]
    /\ boundUsers' = [boundUsers EXCEPT ![c] = @ \cup {userId}]
    /\ rooms' = [rooms EXCEPT ![c] = @ \cup VisibleConversations(userId)]
    /\ emitted' = EmptyBag
    /\ last' = NoResponse
    /\ UNCHANGED <<pending, joining, viewing, status, store, now>>

\* socket.on("userConnected") up to its await of Conversation.find: the
\* registry is written and the handler is suspended
UserConnectedBind(c, userId) ==
    /\ status[c] = "open"
    /\ joining[c] = NoUser
    /\ connectedUsers' = [connectedUsers EXCEPT ![userId] = c]
    /\ socketToUserId' = [socketToUserId EXCEPT ![c] = userId]
    /\ userSockets' = [userSockets EXCEPT ![userId] = c]
    /\ boundUsers' = [boundUsers EXCEPT ![c] = @ \cup {userId}]
    /\ joining' = [joining EXCEPT ![c] = userId]
    /\ emitted' = EmptyBag
    /\ last' = NoResponse
    /\ UNCHANGED <<pending, viewing, status, rooms, store, now>>

\* the suspended userConnected resumes: the socket joins the rooms of the
\* visible conversations. The handler does not look at socket.connected; on a
\* socket that has disconnected meanwhile, socket.join is ignored by the
\* socket.io releases that disable join on close and adds the closed socket's id
\* to the rooms in the releases before them.
UserConnectedJoin(c) ==
    /\ joining[c] # NoUser
    /\ status[c] # "new"
    /\ \E ignored \in BOOLEAN :
          /\ status[c] = "open" => ~ignored
          /\ rooms' = IF ignored THEN rooms
                      ELSE [rooms EXCEPT ![c] = @ \cup VisibleConversations(joining[c])]
    /\ joining' = [joining EXCEPT ![c] = NoUser]
    /\ emitted' = EmptyBag
    /\ last' = NoResponse
    /\ UNCHANGED <<pending, viewing, status, registry, store, now>>

\* socket.on("disconnect"); socket.io has left every room by then
Disconnect(c) ==
    /\ status[c] = "open"
    /\ status' = [status EXCEPT ![c] = "closed"]
    /\ rooms' = [rooms EXCEPT ![c] = {}]
    /\ boundUsers' = [boundUsers EXCEPT ![c] = {}]
    /\ LET userId == socketToUserId[c] IN
         IF userId # NoUser
         THEN /\ connectedUsers' = [connectedUsers EXCEPT ![userId] = NoConn]
              /\ socketToUserId' = [socketToUserId EXCEPT ![c] = NoUser]
              /\ userSockets' = [userSockets EXCEPT ![userId] = NoConn]
         ELSE UNCHANGED <<connectedUsers, socketToUserId, userSockets>>
    /\ emitted' = EmptyBag
    /\ last' = NoResponse
    /\ UNCHANGED <<pending, joining, viewing, store, now>>

\* ------------------------------------------------------- conversations
\* mutant: a participant lookup that every user passes
HasParticipantAnyone(id, userId) == TRUE

\* Conversation.findOne({_id: id, participants: userId}) finds the conversation
HasParticipant(id, userId) ==
    \E i \in DOMAIN conversations[id].participants :
        conversations[id].participants[i] = userId

\* Conversation.findOne({participants: {$all: [a, b], $size: 2}, isGroupChat: false}):
\* the direct conversations of the pair, the first stored one being returned
DirectConversations(a, b) ==
    {id \in DOMAIN conversations :
        /\ ~conversations[id].isGroupChat
        /\ Len(conversations[id].participants) = 2
        /\ {a, b} \subseteq Range(conversations[id].participants)}

FirstOf(S) == CHOOSE id \in S : \A other \in S : id <= other

\* mutant: a new conversation that every user sees
NewConversationSeenByAll(participants, isGroupChat, visibleTo, initiatedBy) ==
    [participants |-> participants, isGroupChat |-> isGroupChat,
     visibleTo |-> Users, initiatedBy |-> initiatedBy]

NewConversation(participants, isGroupChat, visibleTo, initiatedBy) ==
    [participants |-> participants, isGroupChat |-> isGroupChat,
     visibleTo |-> visibleTo, initiatedBy |-> initiatedBy]

\* Conversation.find({participants: userId, visibleTo: userId}): the
\* conversations getConversations lists for userId
ListedConversations(userId) ==
    {id \in DOMAIN conversations :
        HasParticipant(id, userId) /\ userId \in conversations[id].visibleTo}

\* userController.getConversations: req.user._id = userId
GetConversations(userId) ==
    /\ last' = [op |-> "getConversations", status |-> 200, text |-> "",
                conversations |-> ListedConversations(userId)]
    /\ emitted' = EmptyBag
    /\ UNCHANGED <<pending, joining, viewing, status, registry, rooms, store, now>>

\* userController.createConversation, direct chat: req.body.participantId = participantId
CreateDirectConversation(userId, participantId) ==
    LET participants == <<userId, participantId>> IN
    /\ emitted' = EmptyBag
    /\ UNCHANGED <<pending, joining, viewing, status, registry, rooms, messages, nextMsgId, now>>
    /\ IF DirectConversations(userId, participantId) # {}
       THEN /\ last' = Op("createConversation", 200, "existing")
            /\ UNCHANGED <<conversations, nextConvId>>
       ELSE IF Cardinality(Range(participants)) # Len(participants)
       THEN /\ last' = Op("createConversation", 400, "One or more participants not found")
            /\ UNCHANGED <<conversations, nextConvId>>
       ELSE /\ nextConvId <= MaxConvs
            /\ conversations' = conversations @@
                   (nextConvId :> NewConversation(participants, FALSE, {userId}, userId))
            /\ nextConvId' = nextConvId + 1
            /\ last' = Op("createConversation", 201, "Conversation created successfully")

\* createConversation for a direct chat, up to its await of User.find(): the
\* lookup of the pair has found no conversation and the request is suspended,
\* holding no conversation yet
CreateDirectConversationFind(userId, participantId) ==
    /\ pending = NoRequest
    /\ userId # participantId
    /\ DirectConversations(userId, participantId) = {}
    /\ nextConvId <= MaxConvs
    /\ pending' = [senderId |-> userId, receiver |-> participantId,
                   conversation |-> NoConv, document |-> NoDocument]
    /\ UNCHANGED <<joining, viewing, status, registry, rooms, store, now, emitted, last>>

\* the suspended createConversation resumes: the participants exist, and the
\* conversation is saved without a second lookup. A request admitted before
\* its save completes: with another conversation created meanwhile the store
\* holds MaxConvs + 1 conversations.
CreateDirectConversationSave ==
    /\ pending # NoRequest
    /\ pending.conversation = NoConv
    /\ conversations' = conversations @@
           (nextConvId :> NewConversation(<<pending.senderId, pending.receiver>>, FALSE,
                                          {pending.senderId}, pending.senderId))
    /\ nextConvId' = nextConvId + 1
    /\ last' = Op("createConversation", 201, "Conversation created successfully")
    /\ emitted' = EmptyBag
    /\ pending' = NoRequest
    /\ UNCHANGED <<joining, viewing, status, registry, rooms, messages, nextMsgId, now>>

\* userController.createConversation, group chat: req.body.participantId = additional
\* (an array of user ids, here without repetition), groupName given
CreateGroupConversation(userId, additional) ==
    LET participants == <<userId>> \o InSet(additional) IN
    /\ emitted' = EmptyBag
    /\ UNCHANGED <<pending, joining, viewing, status, registry, rooms, messages, nextMsgId, now>>
    /\ IF Cardinality(Range(participants)) # Len(participants)
       THEN /\ last' = Op("createConversation", 400, "One or more participants not found")
            /\ UNCHANGED <<conversations, nextConvId>>
       ELSE /\ nextConvId <= MaxConvs
            /\ conversations' = conversations @@
                   (nextConvId :> NewConversation(participants, TRUE, {userId}, userId))
            /\ nextConvId' = nextConvId + 1
            /\ last' = Op("createConversation", 201, "Conversation created successfully")

\* conversationController.createConversation, direct chat: the version that
\* predates visibleTo, whose documents have an empty visibleTo and no initiatedBy
CreateConversationLegacy(userId, participantId) ==
    LET participants == <<userId, participantId>> IN
    /\ emitted' = EmptyBag
    /\ UNCHANGED <<pending, joining, viewing, status, registry, rooms, messages, nextMsgId, now>>
    /\ IF DirectConversations(userId, participantId) # {}
       THEN /\ last' = Op("createConversation", 200, "existing")
            /\ UNCHANGED <<conversations, nextConvId>>
       ELSE IF Cardinality(Range(participants)) # Len(participants)
       THEN /\ last' = Op("createConversation", 400, "One or more participants not found")
            /\ UNCHANGED <<conversations, nextConvId>>
       ELSE /\ nextConvId <= MaxConvs
            /\ conversations' = conversations @@
                   (nextConvId :> NewConversation(participants, FALSE, {}, NoUser))
            /\ nextConvId' = nextConvId + 1
            /\ last' = Op("createConversation", 201, "Conversation created successfully")

\* ------------------------------------------------------------- messages
NoImage == "null"

NewMessage(sender, conversation, receiver, image, publicId, isEphemeral) ==
    [sender |-> sender, conversation |-> conversation, receiver |-> receiver,
     image |-> image, publicId |-> publicId,
     delivered |-> FALSE, deliveredAt |-> NoTime,
     seen |-> FALSE, seenAt |-> NoTime, seenBy |-> {},
     isEphemeral |-> isEphemeral, ephemeralViewed |-> FALSE]

\* the conversation sendMessage resolves: by id when req.body.conversationId is
\* given, else the direct conversation with req.body.receiver; NoConv when the
\* lookup finds none
ResolvedConversation(senderId, conversationId, receiver) ==
    IF conversationId # NoConv
    THEN IF conversationId \in DOMAIN conversations /\ HasParticipant(conversationId, senderId)
         THEN conversationId ELSE NoConv
    ELSE IF DirectConversations(senderId, receiver) # {}
         THEN FirstOf(DirectConversations(senderId, receiver)) ELSE NoConv

\* the room named by req.body.conversationId, which is undefined when the
\* request addressed the message by receiver
RequestRoom(conversationId) ==
    IF conversationId = NoConv THEN RoomUndefined ELSE conversationId

\* newConversationCreated goes to the receiver's sockets and then to the sender's
CreatedEvents(id, senderId, receiver) ==
    SetToBag({Ev(c, "newConversationCreated", id, {}) : c \in getUserSockets(receiver)})
    (+) SetToBag({Ev(c, "newConversationCreated", id, {}) : c \in getUserSockets(senderId)})

\* newConversationVisible goes to every socket of every newly visible user
RECURSIVE VisibleEvents(_, _)
VisibleEvents(newlyVisibleUsers, room) ==
    IF newlyVisibleUsers = << >> THEN EmptyBag
    ELSE SetToBag({Ev(c, "newConversationVisible", room, {}) :
                      c \in getUserSockets(Head(newlyVisibleUsers))})
         (+) VisibleEvents(Tail(newlyVisibleUsers), room)

SocketsOf(users) == UNION {getUserSockets(u) : u \in users}

\* messageController.sendMessage (conversation-based): req.user._id = senderId,
\* req.body = {conversationId, receiver, isEphemeral}, image = the uploaded
\* image's url or NoImage; text content is present
SendMessage(senderId, conversationId, receiver, image, isEphemeral) ==
    LET found   == ResolvedConversation(senderId, conversationId, receiver)
        created == conversationId = NoConv /\ found = NoConv
        id      == IF created THEN nextConvId ELSE found
        before  == IF created
                   THEN NewConversation(<<senderId, receiver>>, FALSE, {senderId, receiver}, NoUser)
                   ELSE conversations[id]
        newlyVisibleUsers == NotIn(before.participants, before.visibleTo)
        room    == RequestRoom(conversationId)
        joiners == SocketsOf(Range(newlyVisibleUsers))
        members == IF created THEN SocketsOf({senderId, receiver}) ELSE {}
    IN
    /\ UNCHANGED <<pending, joining, viewing, status, registry, now>>
    /\ IF conversationId = NoConv /\ receiver = NoUser
       THEN /\ last' = Op("sendMessage", 400, "Either conversationId or receiver is required")
            /\ emitted' = EmptyBag
            /\ UNCHANGED <<rooms, store>>
       ELSE IF conversationId # NoConv /\ found = NoConv
       THEN /\ last' = Op("sendMessage", 404, "Conversation not found")
            /\ emitted' = EmptyBag
            /\ UNCHANGED <<rooms, store>>
       ELSE /\ nextMsgId <= MaxMsgs
            /\ created => nextConvId <= MaxConvs
            /\ nextConvId' = IF created THEN nextConvId + 1 ELSE nextConvId
            /\ conversations' =
                   (id :> [before EXCEPT !.visibleTo = @ \cup Range(before.participants)])
                   @@ conversations
            /\ messages' = messages @@
                   (nextMsgId :> NewMessage(senderId, id, receiver, image, "null", isEphemeral))
            /\ nextMsgId' = nextMsgId + 1
            /\ rooms' = [c \in Conns |->
                           rooms[c] \cup (IF c \in members THEN {id} ELSE {})
                                    \cup (IF c \in joiners THEN {room} ELSE {})]
            /\ emitted' =
                   (IF created
                    THEN CreatedEvents(id, senderId, receiver) (+) Broadcast("globalUpdate", id)
                    ELSE EmptyBag)
                   (+) (IF newlyVisibleUsers # << >>
                        THEN VisibleEvents(newlyVisibleUsers, room)
                             (+) Broadcast("conversationBecameVisible", room)
                        ELSE EmptyBag)
            /\ last' = Op("sendMessage", 201, "Message sent successfully")

\* sendMessage addressed by receiver for a pair without a conversation, up to
\* its await of message.save(): the conversation is stored, the sockets of both
\* users are notified and joined, and the request is suspended
SendMessageCreate(senderId, receiver) ==
    LET id == nextConvId
        document == NewConversation(<<senderId, receiver>>, FALSE, {senderId, receiver}, NoUser)
    IN
    /\ pending = NoRequest
    /\ DirectConversations(senderId, receiver) = {}
    /\ nextConvId <= MaxConvs
    /\ nextMsgId <= MaxMsgs
    /\ conversations' = conversations @@ (id :> document)
    /\ nextConvId' = nextConvId + 1
    /\ rooms' = [c \in Conns |->
                   rooms[c] \cup (IF c \in SocketsOf({senderId, receiver}) THEN {id} ELSE {})]
    /\ emitted' = CreatedEvents(id, senderId, receiver) (+) Broadcast("globalUpdate", id)
    /\ pending' = [senderId |-> senderId, receiver |-> receiver, conversation |-> id,
                   document |-> document]
    /\ UNCHANGED <<joining, viewing, status, registry, messages, nextMsgId, now, last>>

\* sendMessage addressed by conversation id, up to its await of message.save():
\* the conversation has been found with the sender among its participants
SendMessageLookup(senderId, conversationId) ==
    /\ pending = NoRequest
    /\ conversationId \in DOMAIN conversations
    /\ HasParticipant(conversationId, senderId)
    /\ nextMsgId <= MaxMsgs
    /\ pending' = [senderId |-> senderId, receiver |-> NoUser,
                   conversation |-> conversationId,
                   document |-> conversations[conversationId]]
    /\ UNCHANGED <<joining, viewing, status, registry, rooms, store, now, emitted, last>>

\* the suspended sendMessage resumes: the message is stored, then the loaded
\* conversation document is saved with every participant in visibleTo and the
\* newly visible users are notified. conversation.save() updates the stored
\* document by id: when the document is gone it rejects, the catch answers 500
\* and the message stays stored. A request admitted before its save completes:
\* with another request served meanwhile the store holds MaxMsgs + 1 messages.
SendMessageStore ==
    LET id == pending.conversation
        document == pending.document
        newlyVisibleUsers == NotIn(document.participants, document.visibleTo)
        joiners == SocketsOf(Range(newlyVisibleUsers))
        saved == id \in DOMAIN conversations
    IN
    /\ pending # NoRequest
    /\ id # NoConv
    /\ messages' = messages @@
           (nextMsgId :> NewMessage(pending.senderId, id, pending.receiver,
                                    NoImage, "null", FALSE))
    /\ nextMsgId' = nextMsgId + 1
    /\ conversations' =
           IF saved
           THEN [conversations EXCEPT
                    ![id].visibleTo = document.visibleTo \cup Range(document.participants)]
           ELSE conversations
    /\ rooms' = [c \in Conns |->
                   rooms[c] \cup (IF saved /\ c \in joiners THEN {id} ELSE {})]
    /\ emitted' = IF saved /\ newlyVisibleUsers # << >>
                  THEN VisibleEvents(newlyVisibleUsers, id)
                       (+) Broadcast("conversationBecameVisible", id)
                  ELSE EmptyBag
    /\ last' = IF saved
               THEN Op("sendMessage", 201, "Message sent successfully")
               ELSE Op("sendMessage", 500, "Server Error")
    /\ pending' = NoRequest
    /\ UNCHANGED <<joining, viewing, status, registry, nextConvId, now>>

\* userController.deleteConversation: req.user._id = userId, req.params.id = id;
\* the messages of the conversation are deleted, then the conversation
DeleteConversation(userId, id) ==
    /\ emitted' = EmptyBag
    /\ UNCHANGED <<pending, joining, viewing, status, registry, rooms, nextConvId, nextMsgId, now>>
    /\ IF ~(id \in DOMAIN conversations /\ HasParticipant(id, userId))
       THEN /\ last' = Op("deleteConversation", 404, "Conversation not found")
            /\ UNCHANGED <<conversations, messages>>
       ELSE /\ messages' = [m \in {n \in DOMAIN messages : messages[n].conversation # id}
                              |-> messages[m]]
            /\ conversations' = [other \in DOMAIN conversations \ {id} |->
                                    conversations[other]]
            /\ last' = Op("deleteConversation", 200, "Conversation deleted successfully")

\* ------------------------------------------------------- delivery state
\* a payload without its messageIds field: no id of a message is in it
NoMessageIds == {NoMsg}

\* if (!conversationId || !messageIds || !userId) return; an empty array passes
InvalidStatusEvent(conversationId, messageIds, userId) ==
    conversationId = NoConv \/ messageIds = NoMessageIds \/ userId = NoUser

\* Message.updateMany / Message.find filter {_id: {$in: messageIds}, conversation: conversationId}
Selected(store_, conversationId, messageIds) ==
    {m \in DOMAIN store_ \cap messageIds : store_[m].conversation = conversationId}

\* the messages the messageDelivered handler updates: those not yet delivered
DeliveredTargets(store_, conversationId, messageIds) ==
    {m \in Selected(store_, conversationId, messageIds) : ~store_[m].delivered}

\* mutant: an update that writes the whole delivery state and so resets seen
DeliveredStoreResettingSeen(store_, conversationId, messageIds, time) ==
    [m \in DOMAIN store_ |->
        IF m \in Selected(store_, conversationId, messageIds)
        THEN [store_[m] EXCEPT !.delivered = TRUE, !.deliveredAt = time, !.seen = FALSE]
        ELSE store_[m]]

\* Message.updateMany(..., {delivered: true, deliveredAt: new Date()})
DeliveredStore(store_, conversationId, messageIds, time) ==
    [m \in DOMAIN store_ |->
        IF m \in DeliveredTargets(store_, conversationId, messageIds)
        THEN [store_[m] EXCEPT !.delivered = TRUE, !.deliveredAt = time]
        ELSE store_[m]]

\* mutant: the read-back keeps the filter of the update, {delivered: false}
DeliveredFoundStale(store_, conversationId, messageIds) ==
    {m \in Selected(store_, conversationId, messageIds) : ~store_[m].delivered}

\* the messages it reads back to notify their senders: {delivered: true}
DeliveredFound(store_, conversationId, messageIds) ==
    {m \in Selected(store_, conversationId, messageIds) : store_[m].delivered}

\* senderGroups: the found messages of each sender other than the acknowledging user
SenderGroups(store_, found, ackUserId) ==
    [senderId \in {store_[m].sender : m \in found} \ {ackUserId} |->
        {m \in found : store_[m].sender = senderId}]

\* one batched event per sender socket, then one event per message
StatusEvents(groups, batchEvent, singleEvent, conversationId) ==
    SetToBag(UNION {{Ev(c, batchEvent, conversationId, groups[senderId]) :
                        c \in getUserSockets(senderId)} : senderId \in DOMAIN groups})
    (+) SetToBag(UNION {{Ev(c, singleEvent, conversationId, {m}) :
                        c \in getUserSockets(senderId), m \in groups[senderId]} :
                        senderId \in DOMAIN groups})

\* what the messageDelivered handler emits once the store holds the update
DeliveredEvents(store_, conversationId, messageIds, deliveredToUserId) ==
    StatusEvents(SenderGroups(store_, DeliveredFound(store_, conversationId, messageIds),
                              deliveredToUserId),
                 "messagesDelivered", "messageDelivered", conversationId)

\* socket.on("messageDelivered") on socket c
MessageDelivered(c, conversationId, messageIds, deliveredToUserId) ==
    LET invalid == InvalidStatusEvent(conversationId, messageIds, deliveredToUserId)
        after == IF invalid THEN messages
                 ELSE DeliveredStore(messages, conversationId, messageIds, now)
    IN
    /\ status[c] = "open"
    /\ after # messages => now <= MaxTime
    /\ messages' = after
    /\ now' = IF after # messages THEN now + 1 ELSE now
    /\ emitted' = IF invalid THEN EmptyBag
                  ELSE DeliveredEvents(after, conversationId, messageIds, deliveredToUserId)
    /\ last' = NoResponse
    /\ UNCHANGED <<pending, joining, viewing, status, registry, rooms, conversations, nextConvId, nextMsgId>>

\* socket.on("messageDelivered") or socket.on("messageSeen") on socket c with no
\* payload object: the handlers destructure their argument in the parameter
\* list, outside their try block, so the async function rejects and nothing
\* handles the rejection. Node 14 logs a warning; from Node 15 on the process
\* exits, which closes every socket and loses the registry and the requests
\* in flight.
StatusEventWithoutPayload(c, exits) ==
    /\ status[c] = "open"
    /\ emitted' = EmptyBag
    /\ last' = NoResponse
    /\ UNCHANGED <<store, now>>
    /\ IF exits
       THEN /\ status' = [c2 \in Conns |-> IF status[c2] = "open" THEN "closed" ELSE status[c2]]
            /\ rooms' = [c2 \in Conns |-> {}]
            /\ connectedUsers' = [u \in Users |-> NoConn]
            /\ socketToUserId' = [c2 \in Conns |-> NoUser]
            /\ userSockets' = [u \in Users |-> NoConn]
            /\ boundUsers' = [c2 \in Conns |-> {}]
            /\ joining' = [c2 \in Conns |-> NoUser]
            /\ pending' = NoRequest
            /\ viewing' = NoViewing
       ELSE UNCHANGED <<pending, joining, viewing, status, registry, rooms>>

\* the messages the messageSeen handler updates: those not yet seen
SeenTargets(conversationId, messageIds) ==
    {m \in Selected(messages, conversationId, messageIds) : ~messages[m].seen}

\* the messages it reads back to notify their senders: {seen: true}
SeenFound(store_, conversationId, messageIds) ==
    {m \in Selected(store_, conversationId, messageIds) : store_[m].seen}

\* $addToSet on seenBy: the entry is added unless an equal entry is present
AddToSet(seenBy, userId, seenAt) == seenBy \cup {[user |-> userId, seenAt |-> seenAt]}

\* messagesSeen and messageSeen both carry the sender's whole group
SeenEvents(groups, conversationId) ==
    SetToBag(UNION {{Ev(c, "messagesSeen", conversationId, groups[senderId]) :
                        c \in getUserSockets(senderId)} : senderId \in DOMAIN groups})
    (+) SetToBag(UNION {{Ev(c, "messageSeen", conversationId, groups[senderId]) :
                        c \in getUserSockets(senderId)} : senderId \in DOMAIN groups})

\* socket.on("messageSeen") on socket c
MessageSeen(c, conversationId, seenByUserId, messageIds) ==
    LET invalid == InvalidStatusEvent(conversationId, messageIds, seenByUserId)
        targets == IF invalid THEN {} ELSE SeenTargets(conversationId, messageIds)
        after   == [m \in DOMAIN messages |->
                      IF m \in targets
                      THEN [messages[m] EXCEPT !.seen = TRUE, !.delivered = TRUE,
                                               !.seenAt = now,
                                               !.seenBy = AddToSet(@, seenByUserId, now)]
                      ELSE messages[m]]
        found   == SeenFound(after, conversationId, messageIds)
        groups  == SenderGroups(after, found, seenByUserId)
    IN
    /\ status[c] = "open"
    /\ targets # {} => now <= MaxTime
    /\ messages' = after
    /\ now' = IF targets # {} THEN now + 1 ELSE now
    /\ emitted' = IF invalid THEN EmptyBag ELSE SeenEvents(groups, conversationId)
    /\ last' = NoResponse
    /\ UNCHANGED <<pending, joining, viewing, status, registry, rooms, conversations, nextConvId, nextMsgId>>

\* mutant: the update without its {sender: {$ne: userId}} filter
MarkSeenTargetsAnySender(userId, conversationId, messageIds) ==
    {m \in DOMAIN messages :
        /\ messages[m].conversation = conversationId
        /\ messageIds # {} => m \in messageIds}

\* the messages REST markMessagesAsSeen updates: those of the conversation not
\* sent by the caller, narrowed to messageIds when the list is given and not empty
MarkSeenTargets(userId, conversationId, messageIds) ==
    {m \in DOMAIN messages :
        /\ messages[m].conversation = conversationId
        /\ messageIds # {} => m \in messageIds
        /\ messages[m].sender # userId}

\* messageController.markMessagesAsSeen: req.user._id = userId,
\* req.body = {conversationId, messageIds} (messageIds = {} when absent or empty)
MarkMessagesAsSeen(userId, conversationId, messageIds) ==
    LET targets == MarkSeenTargets(userId, conversationId, messageIds) IN
    /\ emitted' = EmptyBag
    /\ UNCHANGED <<pending, joining, viewing, status, registry, rooms, conversations, nextConvId, nextMsgId>>
    /\ IF conversationId = NoConv
       THEN /\ last' = Op("markMessagesAsSeen", 400, "Conversation ID is required")
            /\ UNCHANGED <<messages, now>>
       ELSE IF ~(conversationId \in DOMAIN conversations /\ HasParticipant(conversationId, userId))
       THEN /\ last' = Op("markMessagesAsSeen", 404, "Conversation not found")
            /\ UNCHANGED <<messages, now>>
       ELSE /\ targets # {} => now <= MaxTime
            /\ messages' = [m \in DOMAIN messages |->
                              IF m \notin targets THEN messages[m]
                              ELSE IF conversations[conversationId].isGroupChat
                              THEN [messages[m] EXCEPT !.seenBy = AddToSet(@, userId, now)]
                              ELSE [messages[m] EXCEPT !.seen = TRUE, !.seenAt = now]]
            /\ now' = IF targets # {} THEN now + 1 ELSE now
            /\ last' = Op("markMessagesAsSeen", 200, "Messages marked as seen")

\* ------------------------------------------------------------- ephemeral
\* messageController.sendMessage (Cloudinary variant): req.body = {receiver,
\* isEphemeral}; a photo, when attached, is uploaded and its url and public_id
\* are stored; the message belongs to no conversation
SendMessageCloudinary(senderId, receiver, photo, isEphemeral) ==
    /\ nextMsgId <= MaxMsgs
    /\ messages' = messages @@
           (nextMsgId :> NewMessage(senderId, NoConv, receiver,
                                    IF photo THEN "url" ELSE NoImage,
                                    IF photo THEN "pid" ELSE "null", isEphemeral))
    /\ nextMsgId' = nextMsgId + 1
    /\ emitted' = EmptyBag
    /\ last' = Op("sendMessage", 201, "Message sent successfully")
    /\ UNCHANGED <<pending, joining, viewing, status, registry, rooms, conversations, nextConvId, now>>

\* mutant: the handler without its isEphemeral validation
EphemeralResponseUnvalidated(userId, messageId) ==
    IF messageId \notin DOMAIN messages
    THEN Op("markEphemeralAsViewed", 404, "Message not found.")
    ELSE LET message == messages[messageId]
             id == message.conversation IN
    IF ~(id \in DOMAIN conversations /\ HasParticipant(id, userId))
    THEN Op("markEphemeralAsViewed", 403, "Access denied to this conversation.")
    ELSE IF ~conversations[id].isGroupChat /\ message.receiver # NoUser
            /\ message.receiver # userId
    THEN Op("markEphemeralAsViewed", 403, "Only the receiver can mark this photo as viewed.")
    ELSE IF message.ephemeralViewed
    THEN Op("markEphemeralAsViewed", 200, "Ephemeral photo already marked as viewed.")
    ELSE Op("markEphemeralAsViewed", 200, "Ephemeral photo marked as viewed and removed.")

\* mutant: the handler without its ephemeralViewed short-circuit
EphemeralResponseRepeated(userId, messageId) ==
    IF messageId \notin DOMAIN messages
    THEN Op("markEphemeralAsViewed", 404, "Message not found.")
    ELSE LET message == messages[messageId]
             id == message.conversation IN
    IF ~(id \in DOMAIN conversations /\ HasParticipant(id, userId))
    THEN Op("markEphemeralAsViewed", 403, "Access denied to this conversation.")
    ELSE IF ~conversations[id].isGroupChat /\ message.receiver # NoUser
            /\ message.receiver # userId
    THEN Op("markEphemeralAsViewed", 403, "Only the receiver can mark this photo as viewed.")
    ELSE IF ~message.isEphemeral
    THEN Op("markEphemeralAsViewed", 400, "This message is not marked as ephemeral.")
    ELSE Op("markEphemeralAsViewed", 200, "Ephemeral photo marked as viewed and removed.")

\* the response of markEphemeralAsViewed for req.user._id = userId and
\* req.params.messageId = messageId, in the order the handler checks
EphemeralResponse(userId, messageId) ==
    IF messageId \notin DOMAIN messages
    THEN Op("markEphemeralAsViewed", 404, "Message not found.")
    ELSE LET message == messages[messageId]
             id == message.conversation IN
    IF ~(id \in DOMAIN conversations /\ HasParticipant(id, userId))
    THEN Op("markEphemeralAsViewed", 403, "Access denied to this conversation.")
    ELSE IF ~conversations[id].isGroupChat /\ message.receiver # NoUser
            /\ message.receiver # userId
    THEN Op("markEphemeralAsViewed", 403, "Only the receiver can mark this photo as viewed.")
    ELSE IF ~message.isEphemeral
    THEN Op("markEphemeralAsViewed", 400, "This message is not marked as ephemeral.")
    ELSE IF message.ephemeralViewed
    THEN Op("markEphemeralAsViewed", 200, "Ephemeral photo already marked as viewed.")
    ELSE Op("markEphemeralAsViewed", 200, "Ephemeral photo marked as viewed and removed.")

Marked(response) ==
    response.text = "Ephemeral photo marked as viewed and removed."

\* messageController.markEphemeralAsViewed (conversation-based)
MarkEphemeralAsViewed(userId, messageId) ==
    LET response == EphemeralResponse(userId, messageId) IN
    /\ last' = response
    /\ messages' = IF Marked(response)
                   THEN [messages EXCEPT ![messageId].ephemeralViewed = TRUE,
                                         ![messageId].image = NoImage]
                   ELSE messages
    /\ emitted' = EmptyBag
    /\ UNCHANGED <<pending, joining, viewing, status, registry, rooms, conversations, nextConvId, nextMsgId, now>>

\* the checks of markEphemeralAsViewed on the message document it loaded, from
\* the conversation lookup on
LoadedResponse(userId, message) ==
    LET id == message.conversation IN
    IF ~(id \in DOMAIN conversations /\ HasParticipant(id, userId))
    THEN Op("markEphemeralAsViewed", 403, "Access denied to this conversation.")
    ELSE IF ~conversations[id].isGroupChat /\ message.receiver # NoUser
            /\ message.receiver # userId
    THEN Op("markEphemeralAsViewed", 403, "Only the receiver can mark this photo as viewed.")
    ELSE IF ~message.isEphemeral
    THEN Op("markEphemeralAsViewed", 400, "This message is not marked as ephemeral.")
    ELSE IF message.ephemeralViewed
    THEN Op("markEphemeralAsViewed", 200, "Ephemeral photo already marked as viewed.")
    ELSE Op("markEphemeralAsViewed", 200, "Ephemeral photo marked as viewed and removed.")

\* markEphemeralAsViewed up to its await of Conversation.findOne(): findById
\* has returned the message document and the request is suspended
MarkEphemeralAsViewedLoad(userId, messageId) ==
    /\ viewing = NoViewing
    /\ messageId \in DOMAIN messages
    /\ viewing' = [userId |-> userId, messageId |-> messageId,
                   loaded |-> <<messages[messageId]>>]
    /\ UNCHANGED <<pending, joining, status, registry, rooms, store, now, emitted, last>>

\* the suspended markEphemeralAsViewed resumes: it checks the document it
\* loaded and saves it, which writes ephemeralViewed and image of the stored
\* message; message.save() rejects when the message is gone and the catch
\* answers 500
MarkEphemeralAsViewedSave ==
    LET messageId == viewing.messageId
        response == LoadedResponse(viewing.userId, viewing.loaded[1])
        stored == messageId \in DOMAIN messages
    IN
    /\ viewing # NoViewing
    /\ last' = IF Marked(response) /\ ~stored
               THEN Op("markEphemeralAsViewed", 500, "Server Error")
               ELSE response
    /\ messages' = IF Marked(response) /\ stored
                   THEN [messages EXCEPT ![messageId].ephemeralViewed = TRUE,
                                         ![messageId].image = NoImage]
                   ELSE messages
    /\ emitted' = EmptyBag
    /\ viewing' = NoViewing
    /\ UNCHANGED <<pending, joining, status, registry, rooms, conversations, nextConvId, nextMsgId, now>>

\* mutant: the Cloudinary variant going on after a failed deletion
CloudinaryResponseIgnoringFailure(userId, messageId, destroyed) ==
    IF messageId \notin DOMAIN messages
    THEN Op("markEphemeralAsViewed", 404, "Message not found.")
    ELSE LET message == messages[messageId] IN
    IF message.receiver = NoUser
    THEN Op("markEphemeralAsViewed", 500, "Server Error")
    ELSE IF message.receiver # userId
    THEN Op("markEphemeralAsViewed", 403, "Only the receiver can mark this photo as viewed.")
    ELSE IF ~message.isEphemeral
    THEN Op("markEphemeralAsViewed", 400, "This message is not marked as ephemeral.")
    ELSE IF message.ephemeralViewed
    THEN Op("markEphemeralAsViewed", 200, "Ephemeral photo already marked as viewed.")
    ELSE Op("markEphemeralAsViewed", 200, "Ephemeral photo marked as viewed and removed.")

\* the response of the Cloudinary variant; destroyed tells whether
\* cloudinary.uploader.destroy succeeds when it is called
CloudinaryResponse(userId, messageId, destroyed) ==
    IF messageId \notin DOMAIN messages
    THEN Op("markEphemeralAsViewed", 404, "Message not found.")
    ELSE LET message == messages[messageId] IN
    IF message.receiver = NoUser
    THEN Op("markEphemeralAsViewed", 500, "Server Error")
    ELSE IF message.receiver # userId
    THEN Op("markEphemeralAsViewed", 403, "Only the receiver can mark this photo as viewed.")
    ELSE IF ~message.isEphemeral
    THEN Op("markEphemeralAsViewed", 400, "This message is not marked as ephemeral.")
    ELSE IF message.ephemeralViewed
    THEN Op("markEphemeralAsViewed", 200, "Ephemeral photo already marked as viewed.")
    ELSE IF message.publicId # "null" /\ ~destroyed
    THEN Op("markEphemeralAsViewed", 500, "Error deleting photo from storage.")
    ELSE Op("markEphemeralAsViewed", 200, "Ephemeral photo marked as viewed and removed.")

\* messageController.markEphemeralAsViewed (Cloudinary variant)
MarkEphemeralAsViewedCloudinary(userId, messageId, destroyed) ==
    LET response == CloudinaryResponse(userId, messageId, destroyed) IN
    /\ last' = response
    /\ messages' = IF Marked(response)
                   THEN [messages EXCEPT ![messageId].ephemeralViewed = TRUE,
                                         ![messageId].image = NoImage,
                                         ![messageId].publicId = "null"]
                   ELSE messages
    /\ emitted' = EmptyBag
    /\ UNCHANGED <<pending, joining, viewing, status, registry, rooms, conversations, nextConvId, nextMsgId, now>>

\* ------------------------------------------------- relayed socket events
\* socket.on("joinConversation"): any room id the client names is joined
JoinConversation(c, conversationId) ==
    /\ status[c] = "open"
    /\ rooms' = IF conversationId = NoConv THEN rooms
                ELSE [rooms EXCEPT ![c] = @ \cup {conversationId}]
    /\ emitted' = EmptyBag
    /\ last' = NoResponse
    /\ UNCHANGED <<pending, joining, viewing, status, registry, store, now>>

\* socket.on("leaveConversation")
LeaveConversation(c, conversationId) ==
    /\ status[c] = "open"
    /\ rooms' = IF conversationId = NoConv THEN rooms
                ELSE [rooms EXCEPT ![c] = @ \ {conversationId}]
    /\ emitted' = EmptyBag
    /\ last' = NoResponse
    /\ UNCHANGED <<pending, joining, viewing, status, registry, store, now>>

\* mutant: io.to(room), which does not leave the emitting socket out
RoomExceptNobody(c, room) == {c2 \in OpenConns : room \in rooms[c2]}

\* socket.to(room): the sockets in the room other than socket c
RoomExcept(c, room) == {c2 \in OpenConns \ {c} : room \in rooms[c2]}

\* io.to(room): every socket in the room
Room(room) == {c2 \in OpenConns : room \in rooms[c2]}

\* socket.on("sendMessage") on socket c with data = {sender, conversationId}
SendMessageEvent(c, sender, conversationId) ==
    /\ status[c] = "open"
    /\ emitted' =
           IF sender = NoUser \/ conversationId = NoConv
           THEN EmptyBag
           ELSE SetToBag({Ev(c2, "messageReceived", conversationId, {}) :
                             c2 \in RoomExcept(c, conversationId)})
                (+) SetToBag({Ev(c2, "conversationUpdated", conversationId, {}) :
                                 c2 \in Room(conversationId)})
                (+) Broadcast("globalUpdate", conversationId)
    /\ last' = NoResponse
    /\ UNCHANGED <<pending, joining, viewing, status, registry, rooms, store, now>>

\* one registered typing or stopTyping listener on socket c with
\* data = {sender, conversationId}: socket.to(data.conversationId).emit(ev, ...)
TypingEvents(c, ev, sender, conversationId) ==
    IF sender = NoUser \/ conversationId = NoConv
    THEN EmptyBag
    ELSE SetToBag({Ev(c2, ev, conversationId, {}) : c2 \in RoomExcept(c, conversationId)})

\* socket.on("typing") on socket c: the connection handler registers two
\* listeners for the event, and the emitter runs both for every inbound event
Typing(c, sender, conversationId) ==
    /\ status[c] = "open"
    /\ emitted' = TypingEvents(c, "typing", sender, conversationId)
                  (+) TypingEvents(c, "typing", sender, conversationId)
    /\ last' = NoResponse
    /\ UNCHANGED <<pending, joining, viewing, status, registry, rooms, store, now>>

\* socket.on("stopTyping") on socket c, registered twice as well
StopTyping(c, sender, conversationId) ==
    /\ status[c] = "open"
    /\ emitted' = TypingEvents(c, "stopTyping", sender, conversationId)
                  (+) TypingEvents(c, "stopTyping", sender, conversationId)
    /\ last' = NoResponse
    /\ UNCHANGED <<pending, joining, viewing, status, registry, rooms, store, now>>

\* the legacy direct events reach the sockets the registry holds for the receiver
DirectEvents(ev, receiver) ==
    SetToBag({Ev(c2, ev, NoConv, {}) : c2 \in getUserSockets(receiver)})

\* socket.on("sendDirectMessage") on socket c with data = {sender, receiver, content}
SendDirectMessage(c, sender, receiver) ==
    /\ status[c] = "open"
    /\ emitted' =
           IF sender = NoUser \/ receiver = NoUser
           THEN EmptyBag
           ELSE DirectEvents("messageReceived", receiver) (+) Broadcast("globalUpdate", NoConv)
    /\ last' = NoResponse
    /\ UNCHANGED <<pending, joining, viewing, status, registry, rooms, store, now>>

\* socket.on("directTyping") on socket c with data = {sender, receiver}
DirectTyping(c, sender, receiver) ==
    /\ status[c] = "open"
    /\ emitted' =
           IF sender = NoUser \/ receiver = NoUser
           THEN EmptyBag
           ELSE DirectEvents("typing", receiver)
    /\ last' = NoResponse
    /\ UNCHANGED <<pending, joining, viewing, status, registry, rooms, store, now>>

\* socket.on("directStopTyping") on socket c with data = {sender, receiver}
DirectStopTyping(c, sender, receiver) ==
    /\ status[c] = "open"
    /\ emitted' =
           IF sender = NoUser \/ receiver = NoUser
           THEN EmptyBag
           ELSE DirectEvents("stopTyping", receiver)
    /\ last' = NoResponse
    /\ UNCHANGED <<pending, joining, viewing, status, registry, rooms, store, now>>

\* ------------------------------------------------------------------ Next
Next ==
    \/ \E c \in Conns : Connect(c)
    \/ \E c \in Conns, u \in Users : UserConnected(c, u)
    \/ \E c \in Conns, u \in Users : UserConnectedBind(c, u)
    \/ \E c \in Conns : UserConnectedJoin(c)
    \/ \E c \in Conns : Disconnect(c)
    \/ \E u \in Users : GetConversations(u)
    \/ \E u \in Users, p \in Users : CreateDirectConversation(u, p)
    \/ \E u \in Users, S \in SUBSET Users : CreateGroupConversation(u, S)
    \/ \E u \in Users, id \in ConvIds \cup {NoConv}, r \in Users \cup {NoUser},
          image \in {"url", NoImage}, e \in BOOLEAN : SendMessage(u, id, r, image, e)
    \/ \E c \in Conns, id \in ConvIds, ms \in SUBSET MsgIds, u \in Users :
          MessageDelivered(c, id, ms, u)
    \/ \E c \in Conns, id \in ConvIds, ms \in SUBSET MsgIds, u \in Users :
          MessageSeen(c, id, u, ms)
    \/ \E c \in Conns, exits \in BOOLEAN : StatusEventWithoutPayload(c, exits)
    \/ \E u \in Users, id \in ConvIds \cup {NoConv}, ms \in SUBSET MsgIds :
          MarkMessagesAsSeen(u, id, ms)
    \/ \E u \in Users, r \in Users, photo \in BOOLEAN, e \in BOOLEAN :
          SendMessageCloudinary(u, r, photo, e)
    \/ \E u \in Users, m \in MsgIds : MarkEphemeralAsViewed(u, m)
    \/ \E u \in Users, m \in MsgIds : MarkEphemeralAsViewedLoad(u, m)
    \/ MarkEphemeralAsViewedSave
    \/ \E u \in Users, m \in MsgIds, destroyed \in BOOLEAN :
          MarkEphemeralAsViewedCloudinary(u, m, destroyed)
    \/ \E u \in Users, p \in Users : CreateConversationLegacy(u, p)
    \/ \E u \in Users, r \in Users : SendMessageCreate(u, r)
    \/ \E u \in Users, id \in ConvIds : SendMessageLookup(u, id)
    \/ SendMessageStore
    \/ \E u \in Users, p \in Users : CreateDirectConversationFind(u, p)
    \/ CreateDirectConversationSave
    \/ \E u \in Users, id \in ConvIds : DeleteConversation(u, id)
    \/ \E c \in Conns, id \in ConvIds : JoinConversation(c, id)
    \/ \E c \in Conns, id \in ConvIds : LeaveConversation(c, id)
    \/ \E c \in Conns, u \in Users \cup {NoUser}, id \in ConvIds \cup {NoConv} :
          SendMessageEvent(c, u, id)
    \/ \E c \in Conns, u \in Users \cup {NoUser}, id \in ConvIds \cup {NoConv} :
          \/ Typing(c, u, id)
          \/ StopTyping(c, u, id)
    \/ \E c \in Conns, u \in Users \cup {NoUser}, r \in Users \cup {NoUser} :
          \/ SendDirectMessage(c, u, r)
          \/ DirectTyping(c, u, r)
          \/ DirectStopTyping(c, u, r)

Spec == Init /\ [][Next]_vars

\* ------------------------------------------------- the session registry
\* The registry under every sequence of connection, userConnected and
\* disconnect events of MaxConns sockets.
NextRegistry ==
    \/ \E c \in Conns : Connect(c)
    \/ \E c \in Conns, u \in Users : UserConnected(c, u)
    \/ \E c \in Conns : Disconnect(c)

SpecRegistry == Init /\ [][NextRegistry]_vars

\* the live connections that have been bound to userId
BoundTo(userId) == {c \in OpenConns : userId \in boundUsers[c]}

\* C1: the handles the registry returns for a user are exactly the connections
\* bound to that user that have not disconnected, so a user with a live bound
\* connection is online.
C1_HandlesAreLiveBoundConnections ==
    \A u \in Users : getUserSockets(u) = BoundTo(u)

\* C9: at most one user's registry entry refers to a given connection handle.
C9_HandleBelongsToOneUser ==
    \A c \in Conns :
        Cardinality({u \in Users : userSockets[u] = c \/ connectedUsers[u] = c}) <= 1

\* C10: once a connection's disconnect has been handled neither the registry
\* nor the reverse index refers to it, and a disconnect from a connection that
\* was never bound leaves the registry unchanged.
C10_Step ==
    /\ \A c \in Conns : status'[c] = "closed" =>
          /\ \A u \in Users : userSockets'[u] # c /\ connectedUsers'[u] # c
          /\ socketToUserId'[c] = NoUser
    /\ \A c \in Conns :
          (status[c] = "open" /\ status'[c] = "closed" /\ socketToUserId[c] = NoUser)
              => UNCHANGED <<connectedUsers, socketToUserId, userSockets>>
C10_ClosedHandleIsUnregistered == [][C10_Step]_vars

\* ------------------------------------------------- the delivery state
\* Two users in direct and group conversations, with every delivery and seen
\* path, socket and REST, in any order; the events arrive on one socket.
Pair == {"A", "B"}

NextDelivery ==
    \/ Connect(1)
    \/ CreateDirectConversation("A", "B")
    \/ CreateGroupConversation("A", {"B"})
    \/ \E u \in Pair, id \in ConvIds : SendMessage(u, id, NoUser, NoImage, FALSE)
    \/ \E id \in ConvIds, ms \in SUBSET MsgIds, u \in Pair :
          MessageDelivered(1, id, ms, u)
    \/ \E id \in ConvIds, ms \in SUBSET MsgIds, u \in Pair :
          MessageSeen(1, id, u, ms)
    \/ \E u \in Pair, id \in ConvIds, ms \in SUBSET MsgIds :
          MarkMessagesAsSeen(u, id, ms)

SpecDelivery == Init /\ [][NextDelivery]_vars

\* C2: every message with seen = true also has delivered = true.
C2_SeenImpliesDelivered ==
    \A m \in DOMAIN messages : messages[m].seen => messages[m].delivered

\* C4: the seenBy list of a message holds at most one entry per user.
C4_SeenByOneEntryPerUser ==
    \A m \in DOMAIN messages :
        \A e1, e2 \in messages[m].seenBy : e1.user = e2.user => e1 = e2

\* ------------------------------------------------------- the end to end
\* Two users on MaxConns sockets: they connect, bind and disconnect, open a
\* direct conversation, send into it by conversation id or by receiver, and
\* acknowledge delivery.
NextEndToEnd ==
    \/ \E c \in Conns : Connect(c)
    \/ \E c \in Conns, u \in Pair : UserConnected(c, u)
    \/ \E c \in Conns : Disconnect(c)
    \/ \E u \in Pair : \E p \in Pair \ {u} : CreateDirectConversation(u, p)
    \/ \E u \in Pair, id \in ConvIds : SendMessage(u, id, NoUser, NoImage, FALSE)
    \/ \E u \in Pair : \E r \in Pair \ {u} : SendMessage(u, NoConv, r, NoImage, FALSE)
    \/ \E c \in Conns, id \in ConvIds, ms \in SUBSET MsgIds, u \in Pair :
          MessageDelivered(c, id, ms, u)

SpecEndToEnd == Init /\ [][NextEndToEnd]_vars

\* C3: handling the same messageDelivered a second time leaves the messages as
\* the first handling left them and emits no notification.
C3_RedeliveryIsSilent ==
    \A id \in ConvIds, ms \in SUBSET MsgIds, u \in Pair :
        LET once == DeliveredStore(messages, id, ms, now) IN
        /\ DeliveredStore(once, id, ms, now + 1) = once
        /\ DeliveredEvents(once, id, ms, u) = EmptyBag

\* the events of one kind a socket was sent by the last handler
EventsTo(c, ev) == {e \in BagToSet(emitted) : e.to = c /\ e.ev = ev}

\* C5: when the first message is sent into a direct conversation that only its
\* initiator sees, the conversation becomes visible to both participants, and
\* every live handle of the other participant is sent newConversationVisible
\* exactly once and is a member of the conversation's room.
C5_Step ==
    \A u \in Pair, id \in ConvIds \cup {NoConv}, r \in Pair \cup {NoUser} :
        LET d == ResolvedConversation(u, id, r) IN
        (/\ SendMessage(u, id, r, NoImage, FALSE)
         /\ d # NoConv
         /\ ~conversations[d].isGroupChat
         /\ Range(conversations[d].participants) = Pair
         /\ conversations[d].visibleTo = {u}
         /\ \A m \in DOMAIN messages : messages[m].conversation # d)
        => /\ conversations'[d].visibleTo = Pair
           /\ \A c \in Conns :
                 (status[c] = "open" /\ boundUsers[c] \cap (Pair \ {u}) # {})
                 => /\ d \in rooms'[c]
                    /\ \E e \in BagToSet(emitted') :
                          /\ e.to = c /\ e.ev = "newConversationVisible"
                          /\ CopiesIn(e, emitted') = 1
                          /\ \A f \in BagToSet(emitted') :
                                (f.to = c /\ f.ev = "newConversationVisible") => f = e
C5_FirstMessageRevealsConversation == [][C5_Step]_vars

\* the end-to-end delivery scenario: A sends to B by receiver id, both bind and
\* drop sockets, and B's client acknowledges delivery on a socket bound to B
NextAcknowledge ==
    \/ \E c \in Conns : Connect(c)
    \/ \E c \in Conns, u \in Pair : UserConnected(c, u)
    \/ \E c \in Conns : Disconnect(c)
    \/ SendMessage("A", NoConv, "B", NoImage, FALSE)
    \/ \E c \in Conns, id \in ConvIds, ms \in SUBSET MsgIds :
          socketToUserId[c] = "B" /\ MessageDelivered(c, id, ms, "B")

SpecAcknowledge == Init /\ [][NextAcknowledge]_vars

\* C6: a message is stored undelivered and unseen; a user who binds a socket
\* afterwards is joined to the room of every conversation they were sent a
\* message in; and when the receiver acknowledges delivery of the message on
\* their socket, the message is stored as delivered and every handle on which
\* the sender is online is sent a messagesDelivered event that lists it.
C6_Step ==
    /\ \A m \in DOMAIN messages' \ DOMAIN messages :
          ~messages'[m].delivered /\ ~messages'[m].seen
    /\ \A c \in Conns, u \in Pair :
          UserConnected(c, u)
          => \A m \in DOMAIN messages :
                (messages[m].conversation \in DOMAIN conversations
                 /\ HasParticipant(messages[m].conversation, u))
                => messages[m].conversation \in rooms'[c]
    /\ \A id \in ConvIds, ms \in SUBSET MsgIds, c \in Conns :
          \A m \in ms \cap DOMAIN messages :
             (/\ messages[m].conversation = id
              /\ messages[m].sender # "B"
              /\ socketToUserId[c] = "B"
              /\ MessageDelivered(c, id, ms, "B"))
             => /\ messages'[m].delivered
                /\ \A h \in getUserSockets(messages[m].sender) :
                      \E e \in BagToSet(emitted') :
                         e.to = h /\ e.ev = "messagesDelivered" /\ m \in e.msgs
C6_EndToEndDelivery == [][C6_Step]_vars

\* the case of C6: the sender is online on one socket, the receiver is bound on
\* another socket that is in the conversation's room, and the sender's socket
\* has just been sent messagesDelivered for the message, now stored delivered
C6_Witness ==
    \E m \in DOMAIN messages, h1, h2 \in Conns :
        /\ h1 # h2
        /\ messages[m].delivered
        /\ getUserSockets(messages[m].sender) = {h1}
        /\ socketToUserId[h2] \in Pair \ {messages[m].sender}
        /\ messages[m].conversation \in rooms[h2]
        /\ \E e \in EventsTo(h1, "messagesDelivered") : m \in e.msgs

\* --------------------------------------------------- ephemeral photos
\* Messages with and without an ephemeral photo, marked as viewed by the sender,
\* the receiver and an outsider. A deployment runs one version of the
\* controller: the store holds conversation messages or receiver-addressed
\* Cloudinary messages, never both.
ConversationBased == \A m \in DOMAIN messages : messages[m].conversation # NoConv
ReceiverBased ==
    /\ conversations = << >>
    /\ \A m \in DOMAIN messages : messages[m].conversation = NoConv

NextEphemeral ==
    \/ ConversationBased /\ CreateDirectConversation("A", "B")
    \/ ConversationBased /\ CreateGroupConversation("A", {"B"})
    \/ \E u \in Pair, id \in ConvIds, r \in {"B", NoUser},
          image \in {"url", NoImage}, e \in BOOLEAN :
          ConversationBased /\ SendMessage(u, id, r, image, e)
    \/ \E u \in Users, m \in MsgIds :
          ConversationBased /\ MarkEphemeralAsViewed(u, m)
    \/ \E photo \in BOOLEAN, e \in BOOLEAN :
          ReceiverBased /\ SendMessageCloudinary("A", "B", photo, e)
    \/ \E u \in Users, m \in MsgIds, destroyed \in BOOLEAN :
          ReceiverBased /\ MarkEphemeralAsViewedCloudinary(u, m, destroyed)

SpecEphemeral == Init /\ [][NextEphemeral]_vars

\* the caller passes the handler's access checks: a participant of the message's
\* conversation and, in a direct conversation whose message names a receiver,
\* that receiver
PassesAccessChecks(userId, messageId) ==
    LET message == messages[messageId]
        id == message.conversation IN
    /\ id \in DOMAIN conversations
    /\ HasParticipant(id, userId)
    /\ conversations[id].isGroupChat \/ message.receiver \in {NoUser, userId}

\* C7 as stated: every markEphemeralAsViewed call on a message that is not
\* ephemeral is answered 400 and leaves the message unchanged.
C7_Step ==
    \A u \in Users, m \in MsgIds :
        (/\ MarkEphemeralAsViewed(u, m)
         /\ m \in DOMAIN messages
         /\ ~messages[m].isEphemeral)
        => last'.status = 400 /\ messages' = messages
C7_NonEphemeralAnswers400 == [][C7_Step]_vars

\* C7 amended: a markEphemeralAsViewed call on a message that is not ephemeral
\* leaves the message unchanged and fails: with 400 when the caller passes the
\* access checks, with 403 when not.
C7_AmendedStep ==
    \A u \in Users, m \in MsgIds :
        (/\ MarkEphemeralAsViewed(u, m)
         /\ m \in DOMAIN messages
         /\ ~messages[m].isEphemeral)
        => /\ messages' = messages
           /\ last'.status = IF PassesAccessChecks(u, m) THEN 400 ELSE 403
C7_NonEphemeralIsRejected == [][C7_AmendedStep]_vars

\* the case of C7: a message with a photo that is not ephemeral, still intact
\* after the handler answered 400
C7_Witness ==
    /\ last = Op("markEphemeralAsViewed", 400, "This message is not marked as ephemeral.")
    /\ \E m \in DOMAIN messages :
          /\ ~messages[m].isEphemeral /\ ~messages[m].ephemeralViewed
          /\ messages[m].image = "url"
          /\ \E u \in Users : PassesAccessChecks(u, m)

\* C8: for a permitted caller and an ephemeral message, the first call marks
\* the message viewed and clears its image, and a call on a message already
\* viewed answers 200 and changes nothing; so two successive calls both succeed
\* and leave what one call leaves. In the Cloudinary variant the first call
\* succeeds unless the deletion of the stored photo fails, and then nothing is
\* changed either.
C8_Step ==
    /\ \A u \in Users, m \in MsgIds :
          (/\ MarkEphemeralAsViewed(u, m)
           /\ m \in DOMAIN messages
           /\ messages[m].isEphemeral
           /\ PassesAccessChecks(u, m))
          => /\ last'.status = 200
             /\ messages'[m].ephemeralViewed
             /\ messages'[m].image = NoImage
             /\ messages[m].ephemeralViewed
                => /\ messages' = messages
                   /\ last'.text = "Ephemeral photo already marked as viewed."
    /\ \A u \in Users, m \in MsgIds, destroyed \in BOOLEAN :
          (/\ MarkEphemeralAsViewedCloudinary(u, m, destroyed)
           /\ m \in DOMAIN messages
           /\ messages[m].isEphemeral
           /\ messages[m].receiver = u)
          => \/ /\ last'.status = 200
                /\ messages'[m].ephemeralViewed
                /\ messages'[m].image = NoImage
                /\ messages'[m].publicId = "null"
                /\ messages[m].ephemeralViewed
                   => /\ messages' = messages
                      /\ last'.text = "Ephemeral photo already marked as viewed."
             \/ /\ ~destroyed
                /\ ~messages[m].ephemeralViewed
                /\ last'.status = 500
                /\ messages' = messages
C8_MarkingTwiceIsIdempotent == [][C8_Step]_vars

\* the case of C8: a viewed ephemeral message without its image, and the
\* handler has just answered a repeated call
C8_Witness ==
    /\ last = Op("markEphemeralAsViewed", 200, "Ephemeral photo already marked as viewed.")
    /\ \E m \in DOMAIN messages :
          /\ messages[m].isEphemeral /\ messages[m].ephemeralViewed
          /\ messages[m].image = NoImage

\* ------------------------------------------------------- auto-rejoin
\* One socket binds, as a participant or as an outsider, while conversations are
\* created, by either version of createConversation, and revealed by a first
\* message.
NextRejoin ==
    \/ Connect(1)
    \/ \E u \in Users : UserConnected(1, u)
    \/ Disconnect(1)
    \/ CreateDirectConversation("A", "B")
    \/ CreateGroupConversation("A", {"B"})
    \/ CreateConversationLegacy("A", "B")
    \/ \E u \in Pair, id \in ConvIds : SendMessage(u, id, NoUser, NoImage, FALSE)
    \/ \E u \in Pair : \E r \in Pair \ {u} : SendMessage(u, NoConv, r, NoImage, FALSE)

SpecRejoin == Init /\ [][NextRejoin]_vars

\* the conversations auto-rejoin is to select for u: u participates, and
\* visibleTo is empty or holds u
Rejoinable(u) ==
    {id \in DOMAIN conversations :
        /\ u \in Range(conversations[id].participants)
        /\ conversations[id].visibleTo = {} \/ u \in conversations[id].visibleTo}

\* C11: when userConnected(u) has been handled on a live connection, the
\* connection is in the room of every conversation in which u participates and
\* whose visibleTo is empty or holds u, and the handler has joined it to no
\* other room.
C11_Step ==
    \A c \in Conns, u \in Users :
        UserConnected(c, u)
        => /\ Rejoinable(u) \subseteq rooms'[c]
           /\ rooms'[c] \ rooms[c] \subseteq Rejoinable(u)
C11_AutoRejoinJoinsVisibleRooms == [][C11_Step]_vars

\* the case of C11: the socket has bound as a participant who must not see a
\* conversation yet, and is not in its room
C11_Witness ==
    \E id \in DOMAIN conversations, c \in OpenConns :
        /\ socketToUserId[c] = "B"
        /\ conversations[id].visibleTo = {"A"}
        /\ id \notin rooms[c]

\* the participants of conversation id that do not see it yet
Hidden(id) == Range(conversations[id].participants) \ conversations[id].visibleTo

\* C12: when a message is sent into a conversation that some participants do
\* not see yet, each of them is added to the stored visibleTo, and every live
\* handle of each of them is sent newConversationVisible and is joined to the
\* conversation's room.
C12_Step ==
    \A u \in Pair, id \in ConvIds \cup {NoConv}, r \in Pair \cup {NoUser} :
        LET d == ResolvedConversation(u, id, r) IN
        (/\ SendMessage(u, id, r, NoImage, FALSE)
         /\ last'.status = 201
         /\ d # NoConv
         /\ Hidden(d) # {})
        => /\ Hidden(d) \subseteq conversations'[d].visibleTo
           /\ \A c \in OpenConns :
                 boundUsers[c] \cap Hidden(d) # {}
                 => /\ d \in rooms'[c]
                    /\ \E e \in BagToSet(emitted') :
                          e.to = c /\ e.ev = "newConversationVisible"
C12_VisibilityTransitionReachesHandles == [][C12_Step]_vars

\* C13: when a message is sent while a newly visible participant has no live
\* handle, the participant is stored in visibleTo all the same and every
\* newConversationVisible of the step goes to a handle of another newly visible
\* participant; and a socket that binds to a user afterwards is joined to the
\* room of every conversation with a message that the user participates in and
\* sees.
C13_Step ==
    /\ \A u \in Pair, id \in ConvIds \cup {NoConv}, r \in Pair \cup {NoUser} :
          LET d == ResolvedConversation(u, id, r) IN
          (/\ SendMessage(u, id, r, NoImage, FALSE)
           /\ last'.status = 201
           /\ d # NoConv)
          => \A b \in Hidden(d) :
                BoundTo(b) = {}
                => /\ b \in conversations'[d].visibleTo
                   /\ \A e \in BagToSet(emitted') :
                         e.ev = "newConversationVisible"
                         => boundUsers[e.to] \cap (Hidden(d) \ {b}) # {}
    /\ \A c \in Conns, u \in Users :
          UserConnected(c, u)
          => \A m \in DOMAIN messages :
                LET d == messages[m].conversation IN
                (/\ d \in DOMAIN conversations
                 /\ u \in Range(conversations[d].participants)
                 /\ u \in conversations[d].visibleTo)
                => d \in rooms'[c]
C13_OfflineParticipantJoinsOnConnect == [][C13_Step]_vars

\* the case of C13: a conversation created hidden from B holds a message and
\* shows B in visibleTo, nothing was emitted, and a socket bound to B is in its room
C13_Witness ==
    \E m \in DOMAIN messages, c \in OpenConns :
        LET d == messages[m].conversation IN
        /\ conversations[d].initiatedBy = "A"
        /\ "B" \in conversations[d].visibleTo
        /\ socketToUserId[c] = "B"
        /\ boundUsers[c] = {"B"}
        /\ d \in rooms[c]
        /\ emitted = EmptyBag

\* ------------------------------------------------ the conversation store
\* Every user creates direct and group conversations, with themselves too, and
\* sends messages by conversation id and by receiver, themselves included.
NextConversations ==
    \/ \E u \in Users, p \in Users : CreateDirectConversation(u, p)
    \/ \E u \in Users, S \in SUBSET Users : CreateGroupConversation(u, S)
    \/ \E u \in Users, id \in ConvIds : SendMessage(u, id, NoUser, NoImage, FALSE)
    \/ \E u \in Users, r \in Users : SendMessage(u, NoConv, r, NoImage, FALSE)

SpecConversations == Init /\ [][NextConversations]_vars

\* C14: the users who see a conversation are participants of it.
C14_VisibleToWithinParticipants ==
    \A id \in DOMAIN conversations :
        conversations[id].visibleTo \subseteq Range(conversations[id].participants)

\* the case of C14: a conversation created for its initiator alone that a first
\* message has shown to all its participants
C14_Witness ==
    \E id \in DOMAIN conversations :
        /\ conversations[id].initiatedBy # NoUser
        /\ Cardinality(conversations[id].visibleTo) >= 2
        /\ conversations[id].visibleTo = Range(conversations[id].participants)
        /\ \E m \in DOMAIN messages : messages[m].conversation = id

\* C16: every stored conversation has at least two participants, and no user
\* occurs twice among them.
C16_ParticipantsAtLeastTwoAndUnique ==
    \A id \in DOMAIN conversations :
        /\ Len(conversations[id].participants) >= 2
        /\ Cardinality(Range(conversations[id].participants))
              = Len(conversations[id].participants)

\* ------------------------------------------- the first message of a pair
\* Direct conversations are created by createConversation or by a first message
\* addressed by receiver, whose handler stores the conversation, awaits, and
\* stores the message; other requests are handled while it is suspended.
NextFirstMessage ==
    \/ Connect(1)
    \/ \E u \in Users : UserConnected(1, u)
    \/ \E u \in Users : \E p \in Users \ {u} : CreateDirectConversation(u, p)
    \/ \E u \in Users, id \in ConvIds : SendMessage(u, id, NoUser, NoImage, FALSE)
    \/ \E u \in Users : \E r \in Users \ {u} : SendMessageCreate(u, r)
    \/ SendMessageStore

SpecFirstMessage == Init /\ [][NextFirstMessage]_vars

\* C15: a direct conversation is visible to its initiator alone as long as it
\* holds no message, to all its participants once it holds one, and visibleTo
\* never loses a member.
C15_Step ==
    /\ \A id \in DOMAIN conversations' :
          ~conversations'[id].isGroupChat
          => conversations'[id].visibleTo =
                IF \E m \in DOMAIN messages' : messages'[m].conversation = id
                THEN Range(conversations'[id].participants)
                ELSE {conversations'[id].participants[1]}
    /\ \A id \in DOMAIN conversations :
          conversations[id].visibleTo \subseteq conversations'[id].visibleTo
C15_DirectVisibilityLifecycle == [][C15_Step]_vars

\* ---------------------------------------------------- room broadcast
\* Sockets enter rooms by auto-rejoin and by joinConversation, leave them, and
\* relay sendMessage events into them.
NextRoom ==
    \/ \E c \in Conns : Connect(c)
    \/ \E c \in Conns : Disconnect(c)
    \/ \E c \in Conns : UserConnected(c, "A")
    \/ CreateDirectConversation("A", "B")
    \/ \E c \in Conns, id \in ConvIds : JoinConversation(c, id)
    \/ \E c \in Conns, id \in ConvIds : LeaveConversation(c, id)
    \/ \E c \in Conns, u \in {"A", NoUser}, id \in ConvIds \cup {NoConv} :
          SendMessageEvent(c, u, id)

SpecRoom == Init /\ [][NextRoom]_vars

\* C17: a sendMessage event with a sender and a conversationId sends
\* messageReceived to exactly the live sockets in the conversation's room other
\* than the socket the event came from.
C17_Step ==
    \A c \in Conns, id \in ConvIds :
        SendMessageEvent(c, "A", id)
        => \A c2 \in Conns :
              (\E e \in BagToSet(emitted') :
                  e.to = c2 /\ e.ev = "messageReceived" /\ e.conv = id)
              <=> (c2 # c /\ status[c2] = "open" /\ id \in rooms[c2])
C17_RoomBroadcastExcludesOrigin == [][C17_Step]_vars

\* the case of C17: two sockets are in the room, one has relayed a message,
\* received the room's conversationUpdated, and the other messageReceived
C17_Witness ==
    \E c1, c2 \in OpenConns, id \in ConvIds :
        /\ c1 # c2 /\ id \in rooms[c1] /\ id \in rooms[c2]
        /\ BagIn(Ev(c1, "conversationUpdated", id, {}), emitted)
        /\ BagIn(Ev(c2, "messageReceived", id, {}), emitted)
        /\ ~BagIn(Ev(c1, "messageReceived", id, {}), emitted)

\* ------------------------------------------------ legacy direct events
\* Each socket binds to one user; a user may bind several sockets.
NextDirect ==
    \/ \E c \in Conns : Connect(c)
    \/ \E c \in Conns, u \in Pair : socketToUserId[c] = NoUser /\ UserConnected(c, u)
    \/ \E c \in Conns : Disconnect(c)
    \/ \E c \in Conns, u \in Pair : \E r \in Pair \ {u} : SendDirectMessage(c, u, r)
    \/ \E c \in Conns, u \in Pair : \E r \in Pair \ {u} : DirectTyping(c, u, r)
    \/ \E c \in Conns, u \in Pair : \E r \in Pair \ {u} : DirectStopTyping(c, u, r)

SpecDirect == Init /\ [][NextDirect]_vars

\* the sockets that the last handler sent an event of kind ev
Reached(ev) == {e.to : e \in {f \in BagToSet(emitted) : f.ev = ev}}

\* C18: sendDirectMessage, directTyping and directStopTyping reach every live
\* handle of the receiver, whatever rooms it is in, and no handle of the sender.
C18_Step ==
    \A c \in Conns, u \in Pair :
        LET r == CHOOSE other \in Pair : other # u IN
        /\ SendDirectMessage(c, u, r)
           => Reached("messageReceived")' = BoundTo(r) /\ Reached("messageReceived")' \cap BoundTo(u) = {}
        /\ DirectTyping(c, u, r)
           => Reached("typing")' = BoundTo(r) /\ Reached("typing")' \cap BoundTo(u) = {}
        /\ DirectStopTyping(c, u, r)
           => Reached("stopTyping")' = BoundTo(r) /\ Reached("stopTyping")' \cap BoundTo(u) = {}
C18_DirectEventsReachReceiverHandles == [][C18_Step]_vars

\* ------------------------------------------------- the flags of a message
\* A sends messages, some with an ephemeral photo, into a direct or a group
\* conversation; B acknowledges, sees and views them in every order.
NextFlags ==
    \/ Connect(1)
    \/ CreateDirectConversation("A", "B")
    \/ CreateGroupConversation("A", {"B"})
    \/ \E id \in ConvIds, e \in BOOLEAN : SendMessage("A", id, "B", "url", e)
    \/ \E id \in ConvIds, ms \in SUBSET MsgIds : MessageDelivered(1, id, ms, "B")
    \/ \E id \in ConvIds, ms \in SUBSET MsgIds : MessageSeen(1, id, "B", ms)
    \/ \E id \in ConvIds, ms \in SUBSET MsgIds : MarkMessagesAsSeen("B", id, ms)
    \/ \E m \in MsgIds : MarkEphemeralAsViewed("B", m)

SpecFlags == Init /\ [][NextFlags]_vars

\* C19: no step takes a message's delivered or seen flag from true back to
\* false, or makes a viewed ephemeral message unviewed.
C19_Step ==
    \A m \in DOMAIN messages :
        /\ m \in DOMAIN messages'
        /\ messages[m].delivered => messages'[m].delivered
        /\ messages[m].seen => messages'[m].seen
        /\ messages[m].ephemeralViewed => messages'[m].ephemeralViewed
C19_FlagsNeverRegress == [][C19_Step]_vars

\* the case of C19: an ephemeral message that was delivered, seen and viewed,
\* and still is after a further request was handled
C19_Witness ==
    \E m \in DOMAIN messages :
        /\ messages[m].delivered /\ messages[m].seen
        /\ messages[m].isEphemeral /\ messages[m].ephemeralViewed
        /\ last = Op("markMessagesAsSeen", 200, "Messages marked as seen")

\* C20: a message that is delivered keeps its deliveredAt; a message of a
\* direct conversation that is seen keeps its seenAt and seenBy; and in a group
\* the seenBy entries of a user who has seen the message stay as they are.
C20_Step ==
    \A m \in DOMAIN messages :
        LET id == messages[m].conversation IN
        /\ messages[m].delivered => messages'[m].deliveredAt = messages[m].deliveredAt
        /\ (messages[m].seen /\ ~conversations[id].isGroupChat)
           => /\ messages'[m].seenAt = messages[m].seenAt
              /\ messages'[m].seenBy = messages[m].seenBy
        /\ \A u \in Pair :
              (\E entry \in messages[m].seenBy : entry.user = u)
              => {entry \in messages'[m].seenBy : entry.user = u}
                    = {entry \in messages[m].seenBy : entry.user = u}
C20_AdvancedMessagesAreUntouched == [][C20_Step]_vars

\* ------------------------------------------ delivery notification fan-out
\* C21: when a messageDelivered event is handled, every live handle of each
\* original sender other than the acknowledging user is sent exactly one
\* messagesDelivered event, listing that sender's messages the event marked
\* delivered, and one messageDelivered event per such message; and no handle of
\* the acknowledging user is sent such an event for a message that user sent.
C21_Step ==
    \A c \in Conns, id \in ConvIds, ms \in SUBSET MsgIds, u \in Pair :
        MessageDelivered(c, id, ms, u)
        => LET affected == DeliveredTargets(messages, id, ms)
               of(s) == {m \in affected : messages[m].sender = s}
           IN
           /\ \A s \in Pair \ {u} : of(s) # {} =>
                 \A h \in BoundTo(s) :
                    /\ {e \in BagToSet(emitted') : e.to = h /\ e.ev = "messagesDelivered"}
                          = {Ev(h, "messagesDelivered", id, of(s))}
                    /\ CopiesIn(Ev(h, "messagesDelivered", id, of(s)), emitted') = 1
                    /\ \A m \in of(s) :
                          CopiesIn(Ev(h, "messageDelivered", id, {m}), emitted') = 1
           /\ \A h \in BoundTo(u), e \in BagToSet(emitted') :
                 (e.to = h /\ e.ev \in {"messagesDelivered", "messageDelivered"})
                 => \A m \in e.msgs : messages[m].sender # u
C21_DeliveredFanOutReachesSenderHandles == [][C21_Step]_vars

\* ------------------------------------------------------ seen in a group
\* A group of three: any member sends, and every member's client reports
\* delivery and seen on the socket and over REST, in any order.
NextGroupSeen ==
    \/ Connect(1)
    \/ CreateGroupConversation("A", {"B", "C"})
    \/ \E u \in Users, id \in ConvIds : SendMessage(u, id, NoUser, NoImage, FALSE)
    \/ \E id \in ConvIds, ms \in SUBSET MsgIds, u \in Users :
          MessageDelivered(1, id, ms, u)
    \/ \E id \in ConvIds, ms \in SUBSET MsgIds, u \in Users :
          MessageSeen(1, id, u, ms)
    \/ \E u \in Users, id \in ConvIds, ms \in SUBSET MsgIds :
          MarkMessagesAsSeen(u, id, ms)

SpecGroupSeen == Init /\ [][NextGroupSeen]_vars

\* C22: in a group conversation, once a messageSeen event of a participant u
\* for a message of another member has been handled, the message's seenBy list
\* holds an entry for u, whether or not another member saw the message before.
C22_Step ==
    \A id \in ConvIds, ms \in SUBSET MsgIds, u \in Users :
        \A m \in ms \cap DOMAIN messages :
            (/\ MessageSeen(1, id, u, ms)
             /\ messages[m].conversation = id
             /\ id \in DOMAIN conversations
             /\ conversations[id].isGroupChat
             /\ HasParticipant(id, u)
             /\ messages[m].sender # u)
            => \E e \in messages'[m].seenBy : e.user = u
C22_GroupSeenRecordsEveryViewer == [][C22_Step]_vars

\* ------------------------------------------------ REST markMessagesAsSeen
\* The store after a direct conversation of A and B and a group of A, B and C
\* were created by A and StoredMsgs messages were sent, by A or B into the
\* direct conversation and by B or C into the group: a conversation that holds a message is visible to all its
\* participants, an empty one to its creator.
StoredMsgs == MaxMsgs + 1
StoredMsgIds == 1 .. StoredMsgs
DirectId == 1
GroupId == 2
StoredConvIds == {DirectId, GroupId}

StoredConversations(msgs) ==
    LET shown(id, participants) ==
            IF \E m \in DOMAIN msgs : msgs[m].conversation = id
            THEN Range(participants) ELSE {"A"}
    IN (DirectId :> NewConversation(<<"A", "B">>, FALSE, shown(DirectId, <<"A", "B">>), "A"))
       @@ (GroupId :> NewConversation(<<"A", "B", "C">>, TRUE,
                                      shown(GroupId, <<"A", "B", "C">>), "A"))

StoredMessages ==
    [StoredMsgIds ->
        {NewMessage(u, DirectId, NoUser, NoImage, "null", FALSE) : u \in {"A", "B"}}
        \cup {NewMessage(u, GroupId, NoUser, NoImage, "null", FALSE) : u \in {"B", "C"}}]

InitMarkSeen ==
    /\ pending = NoRequest
    /\ joining = [c \in Conns |-> NoUser]
    /\ viewing = NoViewing
    /\ status = [c \in Conns |-> "new"]
    /\ connectedUsers = [u \in Users |-> NoConn]
    /\ socketToUserId = [c \in Conns |-> NoUser]
    /\ userSockets = [u \in Users |-> NoConn]
    /\ rooms = [c \in Conns |-> {}]
    /\ messages \in StoredMessages
    /\ conversations = StoredConversations(messages)
    /\ nextConvId = GroupId + 1
    /\ nextMsgId = StoredMsgs + 1
    /\ now = 1
    /\ emitted = EmptyBag
    /\ last = NoResponse
    /\ boundUsers = [c \in Conns |-> {}]

\* every user calls markMessagesAsSeen, without a list of ids or with a list of
\* one, on an existing or a missing conversation, between messageSeen events of
\* B's client
MarkSeenLists == {{}, {1}}

NextMarkSeen ==
    \/ Connect(1)
    \/ \E u \in Users, id \in StoredConvIds \cup {GroupId + 1, NoConv},
          ms \in MarkSeenLists :
          MarkMessagesAsSeen(u, id, ms)
    \/ \E id \in StoredConvIds : MessageSeen(1, id, "B", StoredMsgIds)

SpecMarkSeen == InitMarkSeen /\ [][NextMarkSeen]_vars

\* C23: markMessagesAsSeen called by a participant without a list of ids marks
\* every message of the conversation the caller did not send (seen = true in a
\* direct chat, an entry of the caller in seenBy in a group) and leaves the
\* caller's own messages and the messages of other conversations as they were.
C23_Step ==
    \A u \in Users, id \in StoredConvIds :
        (/\ u \in Range(conversations[id].participants)
         /\ MarkMessagesAsSeen(u, id, {}))
        => \A m \in DOMAIN messages :
              IF messages[m].conversation = id /\ messages[m].sender # u
              THEN IF conversations[id].isGroupChat
                   THEN \E e \in messages'[m].seenBy : e.user = u
                   ELSE messages'[m].seen
              ELSE messages'[m] = messages[m]
C23_BulkMarkSeenFrame == [][C23_Step]_vars

\* the case of C23: A has just marked the direct conversation, whose message of
\* B is now seen, while a message of the group is as it was stored
C23_Witness ==
    /\ last = Op("markMessagesAsSeen", 200, "Messages marked as seen")
    /\ \E m1, m2 \in DOMAIN messages :
          /\ messages[m1].conversation = DirectId /\ messages[m1].sender = "B"
          /\ messages[m1].seen /\ messages[m1].seenAt = now - 1
          /\ messages[m2].conversation = GroupId
          /\ ~messages[m2].seen /\ messages[m2].seenBy = {}

\* C24: markMessagesAsSeen called by a user who is not a participant of the
\* named conversation answers an error and changes no message.
C24_Step ==
    \A u \in Users, id \in StoredConvIds \cup {GroupId + 1}, ms \in MarkSeenLists :
        (/\ id \in DOMAIN conversations => u \notin Range(conversations[id].participants)
         /\ MarkMessagesAsSeen(u, id, ms))
        => last'.status >= 400 /\ messages' = messages
C24_OutsiderCannotMarkSeen == [][C24_Step]_vars

\* the case of C24: C, who is not in the direct conversation, was answered 404
\* while the conversation holds an unseen message
C24_Witness ==
    /\ last = Op("markMessagesAsSeen", 404, "Conversation not found")
    /\ \E m \in DOMAIN messages :
          /\ messages[m].conversation = DirectId
          /\ ~messages[m].seen
          /\ "C" \notin Range(conversations[DirectId].participants)

\* ------------------------------------------- status events of outsiders
\* A direct conversation of A and B with a message of A; one socket binds as
\* A, B or the outsider C and reports delivery and seen in any user's name.
NextOutsider ==
    \/ Connect(1)
    \/ \E u \in Users : UserConnected(1, u)
    \/ CreateDirectConversation("A", "B")
    \/ \E id \in ConvIds : SendMessage("A", id, NoUser, NoImage, FALSE)
    \/ \E id \in ConvIds, ms \in SUBSET MsgIds, u \in Users :
          MessageDelivered(1, id, ms, u)
    \/ \E id \in ConvIds, ms \in SUBSET MsgIds, u \in Users :
          MessageSeen(1, id, u, ms)

SpecOutsider == Init /\ [][NextOutsider]_vars

\* C25: a messageDelivered or messageSeen event that names a user who is not a
\* participant of the named conversation, or a user other than the one bound to
\* the socket it arrives on, changes no message and emits no notification.
C25_Step ==
    \A id \in ConvIds, ms \in SUBSET MsgIds, u \in Users :
        (/\ \/ id \notin DOMAIN conversations
            \/ u \notin Range(conversations[id].participants)
            \/ socketToUserId[1] # u
         /\ \/ MessageDelivered(1, id, ms, u)
            \/ MessageSeen(1, id, u, ms))
        => messages' = messages /\ emitted' = EmptyBag
C25_ForeignStatusEventsAreDropped == [][C25_Step]_vars

\* ------------------------------------------- who may view an ephemeral photo
\* C26: a markEphemeralAsViewed call changes the message only when the caller
\* is the message's designated receiver; a call by the sender of an ephemeral
\* message, in a direct conversation, with or without a stored receiver, or in
\* a group, is refused and leaves the message unchanged.
C26_Step ==
    /\ \A u \in Users, m \in MsgIds :
          (/\ m \in DOMAIN messages
           /\ messages[m].isEphemeral
           /\ MarkEphemeralAsViewed(u, m))
          => /\ messages' # messages => messages[m].receiver = u
             /\ messages[m].sender = u
                => messages' = messages /\ last'.status >= 400
    /\ \A u \in Users, m \in MsgIds, destroyed \in BOOLEAN :
          (/\ m \in DOMAIN messages
           /\ messages[m].isEphemeral
           /\ MarkEphemeralAsViewedCloudinary(u, m, destroyed))
          => /\ messages' # messages => messages[m].receiver = u
             /\ messages[m].sender = u
                => messages' = messages /\ last'.status >= 400
C26_OnlyReceiverMarksEphemeral == [][C26_Step]_vars

\* --------------------------------------------- failed remote deletion
\* C27: when cloudinary.uploader.destroy fails during markEphemeralAsViewed the
\* call answers an error and stores nothing: the message keeps
\* ephemeralViewed = false, its image and its publicId, and the same call with
\* a deletion that succeeds would then mark it.
C27_Step ==
    \A u \in Users, m \in MsgIds :
        (/\ m \in DOMAIN messages
         /\ messages[m].receiver = u
         /\ messages[m].isEphemeral
         /\ ~messages[m].ephemeralViewed
         /\ messages[m].publicId # "null"
         /\ MarkEphemeralAsViewedCloudinary(u, m, FALSE))
        => /\ last'.status >= 400
           /\ messages'[m] = messages[m]
           /\ ~messages'[m].ephemeralViewed
           /\ messages'[m].image # NoImage
           /\ messages'[m].publicId # "null"
           /\ Marked(CloudinaryResponse(u, m, TRUE))'
C27_FailedDeletionCommitsNothing == [][C27_Step]_vars

\* the case of C27: the deletion has just failed for an ephemeral photo that is
\* still stored unviewed with its url and public id
C27_Witness ==
    /\ last = Op("markEphemeralAsViewed", 500, "Error deleting photo from storage.")
    /\ \E m \in DOMAIN messages :
          /\ messages[m].isEphemeral /\ ~messages[m].ephemeralViewed
          /\ messages[m].image = "url" /\ messages[m].publicId = "pid"

\* ------------------------------------------- the earliest controller
\* messageController.sendMessage (earliest variant): req.body = {receiver,
\* isEphemeral}; a photo, when attached, is uploaded and its url is stored
SendMessageEarliest(senderId, receiver, photo, isEphemeral) ==
    /\ nextMsgId <= MaxMsgs
    /\ messages' = messages @@
           (nextMsgId :> NewMessage(senderId, NoConv, receiver,
                                    IF photo THEN "url" ELSE NoImage, "null", isEphemeral))
    /\ nextMsgId' = nextMsgId + 1
    /\ emitted' = EmptyBag
    /\ last' = Op("sendMessage", 201, "Message sent successfully")
    /\ UNCHANGED <<pending, joining, viewing, status, registry, rooms, conversations, nextConvId, now>>

\* the response of the earliest markEphemeralAsViewed, which checks neither the
\* caller nor ephemeralViewed
EarliestResponse(messageId) ==
    IF messageId \notin DOMAIN messages
    THEN Op("markEphemeralAsViewed", 404, "Message not found")
    ELSE IF ~messages[messageId].isEphemeral
    THEN Op("markEphemeralAsViewed", 400, "This message is not marked as ephemeral.")
    ELSE Op("markEphemeralAsViewed", 200, "Ephemeral photo marked as viewed.")

\* messageController.markEphemeralAsViewed (earliest variant): the flag is
\* stored, the image url stays in the document
MarkEphemeralAsViewedEarliest(messageId) ==
    LET response == EarliestResponse(messageId) IN
    /\ last' = response
    /\ messages' = IF response.status = 200
                   THEN [messages EXCEPT ![messageId].ephemeralViewed = TRUE]
                   ELSE messages
    /\ emitted' = EmptyBag
    /\ UNCHANGED <<pending, joining, viewing, status, registry, rooms, conversations, nextConvId, nextMsgId, now>>

\* the image urls getMessages answers for the chat of userId and otherUserId:
\* the url of a viewed ephemeral photo is removed from the response only
ShownImages(userId, otherUserId) ==
    {IF messages[m].isEphemeral /\ messages[m].ephemeralViewed
     THEN NoImage ELSE messages[m].image :
        m \in {n \in DOMAIN messages :
                 \/ messages[n].sender = userId /\ messages[n].receiver = otherUserId
                 \/ messages[n].sender = otherUserId /\ messages[n].receiver = userId}}

\* messageController.getMessages (earliest variant)
GetMessagesEarliest(userId, otherUserId) ==
    /\ last' = [op |-> "getMessages", status |-> 200, text |-> "",
                images |-> ShownImages(userId, otherUserId)]
    /\ emitted' = EmptyBag
    /\ UNCHANGED <<pending, joining, viewing, status, registry, rooms, store, now>>

\* a deployment of the earliest controller: users send each other messages with
\* and without photos, mark them viewed and read their chats
NextEarliest ==
    \/ \E u \in Users : \E r \in Users \ {u}, photo \in BOOLEAN, e \in BOOLEAN :
          SendMessageEarliest(u, r, photo, e)
    \/ \E m \in MsgIds : MarkEphemeralAsViewedEarliest(m)
    \/ \E u \in Users : \E other \in Users \ {u} : GetMessagesEarliest(u, other)

SpecEarliest == Init /\ [][NextEarliest]_vars

\* C28: a message with ephemeralViewed = true is ephemeral and holds no image
\* reference.
C28_ViewedHasNoImage ==
    \A m \in DOMAIN messages :
        messages[m].ephemeralViewed
        => messages[m].isEphemeral /\ messages[m].image = NoImage

\* ------------------------------------------------ deleting a conversation
\* A and B open a direct conversation and send into it, in one step or
\* suspended at the await of message.save(), while A, B or the outsider C
\* deletes it.
NextDelete ==
    \/ CreateDirectConversation("A", "B")
    \/ \E u \in Pair, id \in ConvIds : SendMessage(u, id, NoUser, NoImage, FALSE)
    \/ \E u \in Pair, id \in ConvIds : SendMessageLookup(u, id)
    \/ SendMessageStore
    \/ \E u \in Users, id \in ConvIds : DeleteConversation(u, id)
    \/ \E u \in Pair, id \in ConvIds : MarkMessagesAsSeen(u, id, {})

SpecDelete == Init /\ [][NextDelete]_vars

\* C29: once deleteConversation has completed, the conversation is not stored
\* and no stored message references it: every stored message belongs to a
\* stored conversation, also when a sendMessage into the conversation was in
\* flight during the deletion.
C29_NoMessageOfDeletedConversation ==
    \A m \in DOMAIN messages : messages[m].conversation \in DOMAIN conversations

\* ------------------------------------------- disconnect during a bind
\* Sockets connect, send one userConnected each, which is suspended at its
\* query, and disconnect before or after it resumes, while A opens
\* conversations with B.
NextInFlightBind ==
    \/ \E c \in Conns : Connect(c)
    \/ \E c \in Conns, u \in Pair :
          socketToUserId[c] = NoUser /\ UserConnectedBind(c, u)
    \/ \E c \in Conns : UserConnectedJoin(c)
    \/ \E c \in Conns : Disconnect(c)
    \/ CreateDirectConversation("A", "B")
    \/ CreateGroupConversation("A", {"B"})

SpecInFlightBind == Init /\ [][NextInFlightBind]_vars

\* C30: once a connection has disconnected and its userConnected handler has
\* finished, whichever came first, no registry entry refers to the connection
\* and the connection is a member of no room.
C30_ClosedAfterBindIsCleanedUp ==
    \A c \in Conns :
        (status[c] = "closed" /\ joining[c] = NoUser)
        => /\ socketToUserId[c] = NoUser
           /\ \A u \in Users : userSockets[u] # c /\ connectedUsers[u] # c
           /\ rooms[c] = {}

\* ------------------------------------------------- malformed payloads
\* A message of A in a direct conversation with B; sockets bind and send every
\* event with well-formed payloads, with a field missing and with no payload.
StatusLists == (SUBSET MsgIds) \cup {NoMessageIds}

NextMalformed ==
    \/ \E c \in Conns : Connect(c)
    \/ \E c \in Conns : socketToUserId[c] = NoUser /\ UserConnected(c, "B")
    \/ CreateDirectConversation("A", "B")
    \/ \E id \in ConvIds : SendMessage("A", id, NoUser, NoImage, FALSE)
    \/ \E c \in Conns, id \in ConvIds \cup {NoConv}, ms \in StatusLists,
          u \in {"B", NoUser} : MessageDelivered(c, id, ms, u)
    \/ \E c \in Conns, id \in ConvIds \cup {NoConv}, ms \in StatusLists,
          u \in {"B", NoUser} : MessageSeen(c, id, u, ms)
    \/ \E c \in Conns, exits \in BOOLEAN : StatusEventWithoutPayload(c, exits)
    \/ \E c \in Conns, id \in ConvIds \cup {NoConv} : JoinConversation(c, id)
    \/ \E c \in Conns, u \in {"B", NoUser}, id \in ConvIds \cup {NoConv} :
          SendMessageEvent(c, u, id)

SpecMalformed == Init /\ [][NextMalformed]_vars

\* C31: an event whose payload misses a required field, or has no payload at
\* all, changes no persisted state, emits nothing, and leaves every connection,
\* its rooms and the registry as they were.
C31_Step ==
    LET dropped == /\ UNCHANGED <<store, now>>
                   /\ emitted' = EmptyBag
                   /\ UNCHANGED <<status, rooms, registry>>
    IN
    /\ \A c \in Conns, id \in ConvIds \cup {NoConv}, ms \in StatusLists, u \in {"B", NoUser} :
          (/\ InvalidStatusEvent(id, ms, u)
           /\ MessageDelivered(c, id, ms, u) \/ MessageSeen(c, id, u, ms))
          => dropped
    /\ \A c \in Conns, exits \in BOOLEAN : StatusEventWithoutPayload(c, exits) => dropped
    /\ \A c \in Conns : JoinConversation(c, NoConv) => dropped
    /\ \A c \in Conns, u \in {"B", NoUser}, id \in ConvIds \cup {NoConv} :
          ((u = NoUser \/ id = NoConv) /\ SendMessageEvent(c, u, id)) => dropped
C31_MalformedEventsAreDropped == [][C31_Step]_vars

\* --------------------------------------------- acknowledging one's own
\* C32: a messageDelivered or messageSeen event that names a message's own
\* sender as the acknowledging user leaves delivered, seen and seenBy of that
\* message as they were.
C32_Step ==
    \A id \in ConvIds, ms \in SUBSET MsgIds, u \in Pair :
        \A m \in DOMAIN messages :
            (/\ messages[m].sender = u
             /\ MessageDelivered(1, id, ms, u) \/ MessageSeen(1, id, u, ms))
            => /\ messages'[m].delivered = messages[m].delivered
               /\ messages'[m].seen = messages[m].seen
               /\ messages'[m].seenBy = messages[m].seenBy
C32_OwnAcknowledgementChangesNothing == [][C32_Step]_vars

\* ------------------------------------------- two requests, one transition
\* B connects; A opens a conversation with B, which B does not see yet; two
\* sendMessage requests of A into it interleave: one is suspended at its save
\* with the conversation it loaded, the other runs meanwhile.
NextInterleaved ==
    \/ \E c \in Conns : Connect(c)
    \/ \E c \in Conns : socketToUserId[c] = NoUser /\ UserConnected(c, "B")
    \/ \E c \in Conns : Disconnect(c)
    \/ CreateDirectConversation("A", "B")
    \/ \E id \in ConvIds : SendMessage("A", id, NoUser, NoImage, FALSE)
    \/ \E id \in ConvIds : SendMessageLookup("A", id)
    \/ SendMessageStore

SpecInterleaved == Init /\ [][NextInterleaved]_vars

\* C33: when sendMessage requests into a conversation not yet visible to B
\* interleave, each live handle of B receives newConversationVisible once in
\* total. visibleTo only grows under these requests, so a handle is notified
\* once exactly when a request notifies it only if the stored conversation
\* does not list its user in visibleTo yet.
C33_Step ==
    \A c \in Conns, id \in DOMAIN conversations :
        (/\ Ev(c, "newConversationVisible", id, {}) \in BagToSet(emitted')
         /\ SendMessageStore \/ SendMessage("A", id, NoUser, NoImage, FALSE))
        => socketToUserId[c] \notin conversations[id].visibleTo
C34_Step ==
    \A u \in Pair : \A r \in Pair \ {u} :
        LET d == ResolvedConversation(u, NoConv, r) IN
        (/\ d # NoConv
         /\ Hidden(d) # {}
         /\ SendMessage(u, NoConv, r, NoImage, FALSE))
        => /\ \A e \in BagToSet(emitted') :
                 e.ev = "newConversationVisible" => e.conv = d
           /\ \A c \in SocketsOf(Hidden(d)) : d \in rooms'[c]
C34_ReceiverPathNamesResolvedConversation == [][C34_Step]_vars

\* ------------------------------------------------ find, then create
\* A and B open their direct conversation at the same time, with
\* createConversation and with sendMessage addressed by receiver: a
\* createConversation may be suspended between its lookup and its save while
\* other requests are served; sockets connect and bind meanwhile.
NextFindThenCreate ==
    \/ \E c \in Conns : Connect(c)
    \/ \E c \in Conns, u \in Pair : socketToUserId[c] = NoUser /\ UserConnected(c, u)
    \/ \E u \in Pair : \E p \in Pair \ {u} : CreateDirectConversation(u, p)
    \/ \E u \in Pair : \E p \in Pair \ {u} : CreateDirectConversationFind(u, p)
    \/ CreateDirectConversationSave
    \/ \E u \in Pair : \E r \in Pair \ {u} : SendMessage(u, NoConv, r, NoImage, FALSE)

SpecFindThenCreate == Init /\ [][NextFindThenCreate]_vars

\* C35: at most one non-group conversation is stored for any unordered pair of
\* users, after any interleaving of createConversation and receiver-addressed
\* sendMessage requests of the pair.
C35_OneDirectConversationPerPair ==
    \A a \in Users : \A b \in Users \ {a} :
        Cardinality(DirectConversations(a, b)) <= 1

\* ---------------------------------------------------- typing indicators
\* Sockets connect, bind to A or B or stay unbound, and join the room of a
\* conversation; clients announce that they type, that they stopped, and that
\* they sent a message.
NextTyping ==
    \/ \E c \in Conns : Connect(c)
    \/ \E c \in Conns, u \in Pair : socketToUserId[c] = NoUser /\ UserConnected(c, u)
    \/ \E c \in Conns : Disconnect(c)
    \/ CreateDirectConversation("A", "B")
    \/ SendMessage("A", NoConv, "B", NoImage, FALSE)
    \/ \E c \in Conns, id \in ConvIds : JoinConversation(c, id)
    \/ \E c \in Conns, u \in Pair \cup {NoUser}, id \in ConvIds \cup {NoConv} :
          \/ Typing(c, u, id)
          \/ StopTyping(c, u, id)
          \/ SendMessageEvent(c, u, id)

SpecTyping == Init /\ [][NextTyping]_vars

\* the number of events of one kind the last handler sent to socket c for room id
Emissions(c, ev, id) == CopiesIn(Ev(c, ev, id, {}), emitted')

\* C36: each inbound typing (stopTyping) event of a connection results in
\* exactly one typing (stopTyping) emission to every other connection in the
\* conversation's room and none to the originating connection, and changes
\* nothing that is stored.
C36_Step ==
    \A c \in Conns, u \in Pair, id \in ConvIds :
        /\ Typing(c, u, id)
           => /\ \A c2 \in RoomExcept(c, id) : Emissions(c2, "typing", id) = 1
              /\ Emissions(c, "typing", id) = 0
              /\ store' = store
        /\ StopTyping(c, u, id)
           => /\ \A c2 \in RoomExcept(c, id) : Emissions(c2, "stopTyping", id) = 1
              /\ Emissions(c, "stopTyping", id) = 0
              /\ store' = store
C36_TypingIsRelayedOnce == [][C36_Step]_vars

\* the events relayed to the room of a conversation
RoomEventKinds == {"messageReceived", "typing", "conversationUpdated"}

\* C37: a connection receives messageReceived, typing or conversationUpdated
\* of a conversation's room only if it is bound to a user who is a participant
\* of the conversation; a joinConversation of an unbound connection, or of the
\* connection of a non-participant, does not make it a recipient.
C37_Step ==
    \A e \in BagToSet(emitted') :
        (/\ emitted' # emitted
         /\ e.ev \in RoomEventKinds
         /\ e.conv \in DOMAIN conversations)
        => /\ socketToUserId[e.to] # NoUser
           /\ HasParticipant(e.conv, socketToUserId[e.to])
C37_RoomEventsReachParticipantsOnly == [][C37_Step]_vars

\* ------------------------------------------------ two viewers at once
\* A and B exchange ephemeral and ordinary photos; markEphemeralAsViewed
\* requests arrive for them, one of which may be suspended after it has loaded
\* the message while another is served; sockets connect and bind meanwhile.
NextViewTwice ==
    \/ \E c \in Conns : Connect(c)
    \/ \E c \in Conns, u \in Pair : socketToUserId[c] = NoUser /\ UserConnected(c, u)
    \/ \E u \in Pair, isEphemeral \in BOOLEAN :
          \E r \in Pair \ {u} : SendMessage(u, NoConv, r, "url", isEphemeral)
    \/ \E u \in Pair, m \in MsgIds : MarkEphemeralAsViewed(u, m)
    \/ \E u \in Pair, m \in MsgIds : MarkEphemeralAsViewedLoad(u, m)
    \/ MarkEphemeralAsViewedSave

SpecViewTwice == Init /\ [][NextViewTwice]_vars

\* C38: when two markEphemeralAsViewed requests on the same unviewed ephemeral
\* message interleave, exactly one performs the clear and reports 'marked as
\* viewed and removed' and the other reports 'already marked': a request
\* reports the removal only if the stored message was unviewed until then.
C38_Step ==
    /\ (MarkEphemeralAsViewedSave /\ Marked(last'))
       => ~messages[viewing.messageId].ephemeralViewed
    /\ \A u \in Pair, m \in MsgIds :
          (MarkEphemeralAsViewed(u, m) /\ Marked(last'))
          => ~messages[m].ephemeralViewed
C38_OneViewerPerformsTheClear == [][C38_Step]_vars

\* ------------------------------------------- the list and the rooms
\* A opens conversations with B through the current and the legacy
\* createConversation and sends into them; sockets connect and bind; users
\* fetch their conversation lists.
NextListing ==
    \/ \E c \in Conns : Connect(c)
    \/ \E c \in Conns, u \in Pair : socketToUserId[c] = NoUser /\ UserConnected(c, u)
    \/ \E c \in Conns : Disconnect(c)
    \/ CreateDirectConversation("A", "B")
    \/ CreateConversationLegacy("A", "B")
    \/ \E u \in Pair, id \in ConvIds : SendMessage(u, id, NoUser, NoImage, FALSE)
    \/ \E u \in Pair : GetConversations(u)

SpecListing == Init /\ [][NextListing]_vars

\* C39: for every user and every stored state, legacy conversations with an
\* empty visibleTo included, the rooms a socket is auto-joined to when it binds
\* to the user are the conversations getConversations lists for the user.
C39_Step ==
    \A c \in Conns, u \in Pair :
        (rooms[c] = {} /\ UserConnected(c, u))
        => rooms'[c] = ListedConversations(u)
C39_AutoJoinedRoomsAreListedConversations == [][C39_Step]_vars

\* -------------------------------------------------- flags and their times
\* C40: in every reachable state a message with delivered = true has
\* deliveredAt set and a message with seen = true has seenAt set, whichever of
\* messageDelivered, messageSeen and markMessagesAsSeen advanced it.
C40_FlagsCarryTheirTimes ==
    \A m \in DOMAIN messages :
        /\ messages[m].delivered => messages[m].deliveredAt # NoTime
        /\ messages[m].seen => messages[m].seenAt # NoTime
====
